---- MODULE Spec2Model ----
(***************************************************************************)
(* hyqhyq3/mymtr: the round/TTL scheduling Controller (internal/mtr), its  *)
(* Hop registry behind one reader/writer lock, the bounded event channel   *)
(* and its consumer, modelled as a state machine.                          *)
(***************************************************************************)
EXTENDS Integers, Sequences, FiniteSets, TLC

(* ---------------------------------------------------------------- bounds *)
\* largest cfg.MaxHops explored
MaxHops == 2
\* largest cfg.Count explored, and the cap on rounds when cfg.Count = 0
MaxRounds == 2
\* number of concurrent Snapshot callers
NumReaders == 2
\* cfg.Count of the run that overflows the event channel
FloodCount == 130

\* longest list of addresses a name lookup of the target answers with
MaxAddrs == 2

\* largest number of inbound messages one Probe call reads
MaxReads == 2
\* longest per-probe timeout and latest caller deadline, in clock ticks
MaxTimeout == 2

\* the route scenario: rounds of the run, TTL limit, TTL at which the target answers
RouteRounds == 3
RouteMaxHops == 5
RouteTargetTTL == 3

\* HopStats on its own: longest sequence of samples, largest sent / received count
MaxSamples == 11
\* number of leading samples drawn from all of RTTs; later ones are drawn from LateRTTs
VariedSamples == 7
MaxCount == 3

(* ------------------------------------------------------ program constants *)
\* make(chan Event, 256)
QueueCap == 256

\* UDPProber.basePort and the modulus of the destination port
BasePort == 33434
PortSpan == 10000
\* the shortest IPv4 header, the fixed IPv6 header, and the part of the transport
\* header a quoted datagram must hold
IPv4HeaderLen == 20
IPv6HeaderLen == 40
QuotedTransportLen == 8
\* the port-unreachable code of a Destination Unreachable, per family
PortUnreachable4 == 3
PortUnreachable6 == 4

NoIP == "nil"
Readers == 1..NumReaders

ResponseTypeTimeout == "Timeout"
ResponseTypeEchoReply == "EchoReply"
ResponseTypeTimeExceeded == "TimeExceeded"
ResponseTypeDestUnreach == "DestUnreach"

EventTypeHopUpdated == "HopUpdated"
EventTypeRoundCompleted == "RoundCompleted"
EventTypeDone == "Done"
EventTypeError == "Error"

\* the values Run can return / an Error event can carry
ErrNone == "nil"
ErrResolve == "errResolve"
ErrSetTarget == "errSetTarget"
ErrProbe == "errProbe"
ErrCtx == "ctxErr"

VARIABLES
    cfg,        \* c.config: maxHops, count, enableDNS, geo (resolver != nil)
    targetIP,   \* c.config.TargetIP
    pc,         \* position of Run
    round,      \* loop variable round
    ttl,        \* loop variable ttl
    res,        \* result of the Probe call in progress
    ctxDone,    \* ctx.Err() != nil
    hops,       \* c.hops
    mu,         \* c.mu: [writer, readers]
    events,     \* c.events: the buffered channel's contents
    closed,     \* number of close(c.events) executed
    retval,     \* value returned by Run
    rpc,        \* position of each Snapshot caller
    snap,       \* Snapshot under construction / returned, per caller
    delivered,  \* history: events the consumer received
    consumerDone, \* the consumer saw the channel closed
    published,  \* history: every event handed to emit
    eventsIdx,  \* history: for each queued event, its position in published
    deliveredIdx, \* history: for each received event, its position in published
    sweep,      \* history: <<ttl, type>> of the Probe results of this round
    probes,     \* history: per TTL, number of Probe calls issued
    applied,    \* history: per TTL, number of results applied
    committed,  \* history: c.hops as of the last c.mu.Unlock()
    fatal,      \* history: a Probe call returned an error
    cancelAt,   \* history: where Run was when the context was cancelled
    net,        \* the network the run faces: responder addresses, round-trip times
    lookups,    \* history: per TTL, the addresses handed to reverseDNS and to Resolve
    answer,     \* history: what the name lookup of the target answered
    seqs,       \* history: the seq arguments passed to Probe, in order
    held,       \* the Snapshot each caller got back from its last call
    call,       \* Prober.Probe: the prober's fields and the arguments of the call
    ppc,        \* Prober.Probe: position of the call
    pres,       \* Prober.Probe: the values returned
    clock,      \* Prober.Probe: time since the probe was sent
    deadline,   \* Prober.Probe: the read deadline set on the socket
    pctx,       \* Prober.Probe: the caller cancelled ctx
    plog,       \* history: what the read loop of the call met
    acc,        \* HopStats: an accumulator on which AddRTT / UpdateLoss are called
    samples,    \* history: the durations passed to AddRTT on acc, in order
    waiters,    \* Prober.Probe: the goroutine each call so far started to wait on ctx.Done()
    dl          \* downloadIP2RegionDB: the call, its files and what it tried

vars == <<cfg, targetIP, pc, round, ttl, res, ctxDone, hops, mu, events, closed,
          retval, rpc, snap, delivered, consumerDone, published, eventsIdx,
          deliveredIdx, sweep, probes, applied, committed, fatal, cancelAt, net,
          lookups, answer, seqs, held, call, ppc, pres, clock, deadline, pctx, plog,
          acc, samples, waiters, dl>>

\* the state of a run of the Controller
runVars == <<cfg, targetIP, pc, round, ttl, res, ctxDone, hops, mu, events, closed,
             retval, rpc, snap, delivered, consumerDone, published, eventsIdx,
             deliveredIdx, sweep, probes, applied, committed, fatal, cancelAt, net,
             lookups, answer, seqs, held>>

\* the state of one Probe call
proberVars == <<call, ppc, pres, clock, deadline, pctx, plog>>

\* a HopStats exercised on its own
statsVars == <<acc, samples>>

(* ------------------------------------------------------------- Hop, stats *)
NoHop == [absent |-> TRUE]
NoRes == [type |-> "none"]
NoSnap == [taken |-> FALSE]

\* appendHistory: the sample history keeps the newest HistoryMax round-trip times
HistoryMax == 10

\* NewHopStats / NewHop; mean and m2 are the float64 accumulators of AddRTT, kept in
\* thousandths of a duration unit (mean) and in millionths of a squared unit (m2)
NewHopStats ==
    [Sent |-> 0, Received |-> 0, Loss |-> 0, Last |-> 0, Best |-> 0, Worst |-> 0,
     Avg |-> 0, StdDev |-> 0, History |-> <<>>, mean |-> 0, m2 |-> 0, n |-> 0]

NewHop(t) ==
    [absent |-> FALSE, TTL |-> t, IP |-> NoIP, Hostname |-> "", Location |-> "",
     Stats |-> NewHopStats, Lost |-> TRUE]

\* math.Sqrt followed by int64(): the integer part of the square root of v >= 0
RECURSIVE SqrtBetween(_, _, _)
SqrtBetween(v, lo, hi) ==
    IF lo >= hi THEN lo
    ELSE LET mid == (lo + hi + 1) \div 2
         IN  IF mid * mid <= v THEN SqrtBetween(v, mid, hi) ELSE SqrtBetween(v, lo, mid - 1)

Sqrt(v) == SqrtBetween(v, 0, 46340)

\* mutant: a full buffer drops the new sample instead of the oldest one
appendHistoryKeepsOldest(h, rtt) ==
    IF Len(h) < HistoryMax THEN Append(h, rtt) ELSE h

\* HopStats.appendHistory
appendHistory(h, rtt) ==
    IF Len(h) < HistoryMax THEN Append(h, rtt) ELSE Append(Tail(h), rtt)

\* mutant: the squared deviations are divided by n instead of n - 1
AddRTTPopulationVariance(s, rtt) ==
    LET n1 == s.n + 1
        x == rtt * 1000
        delta == x - s.mean
        mean1 == s.mean + delta \div n1
        m21 == s.m2 + delta * (x - mean1)
        variance == IF m21 \div n1 < 0 THEN 0 ELSE m21 \div n1
    IN  [s EXCEPT !.Last = rtt,
                  !.Best = IF s.Best = 0 \/ rtt < s.Best THEN rtt ELSE s.Best,
                  !.Worst = IF rtt > s.Worst THEN rtt ELSE s.Worst,
                  !.n = n1, !.mean = mean1, !.m2 = m21,
                  !.Avg = mean1 \div 1000,
                  !.StdDev = IF n1 > 1 THEN Sqrt(variance) \div 1000 ELSE s.StdDev,
                  !.History = appendHistory(s.History, rtt)]

\* HopStats.AddRTT: last / best / worst, Welford's running mean and squared
\* deviations, average, standard deviation from the second sample on, history
AddRTT(s, rtt) ==
    LET n1 == s.n + 1
        x == rtt * 1000
        delta == x - s.mean
        mean1 == s.mean + delta \div n1
        m21 == s.m2 + delta * (x - mean1)
        variance == IF m21 \div (n1 - 1) < 0 THEN 0 ELSE m21 \div (n1 - 1)
    IN  [s EXCEPT !.Last = rtt,
                  !.Best = IF s.Best = 0 \/ rtt < s.Best THEN rtt ELSE s.Best,
                  !.Worst = IF rtt > s.Worst THEN rtt ELSE s.Worst,
                  !.n = n1, !.mean = mean1, !.m2 = m21,
                  !.Avg = mean1 \div 1000,
                  !.StdDev = IF n1 > 1 THEN Sqrt(variance) \div 1000 ELSE s.StdDev,
                  !.History = appendHistory(s.History, rtt)]

\* HopStats.UpdateLoss; Loss is kept in thousandths of a percent
ClampLoss(l) == IF l < 0 THEN 0 ELSE IF l > 100000 THEN 100000 ELSE l

\* mutant: the result is stored without being clamped to [0, 100]
UpdateLossUnclamped(s) ==
    IF s.Sent <= 0
    THEN [s EXCEPT !.Loss = 0]
    ELSE [s EXCEPT !.Loss = 100000 - (s.Received * 100000) \div s.Sent]

UpdateLoss(s) ==
    IF s.Sent <= 0
    THEN [s EXCEPT !.Loss = 0]
    ELSE [s EXCEPT !.Loss = ClampLoss(100000 - (s.Received * 100000) \div s.Sent)]

\* the results Probe can return with a nil error
\* on the network n: a timeout, or a response of one of the three kinds from one of
\* n's addresses (or from a peer whose address extractPeerIP cannot read)
ProbeResults(n) ==
    {[type |-> ResponseTypeTimeout, ip |-> NoIP, rtt |-> 0]}
    \cup {[type |-> ty, ip |-> i, rtt |-> d] : ty \in n.types, i \in n.ips, d \in n.rtts}

\* the answers a probe of TTL t can get: on a network with a scripted route, those of
\* the types the route gives TTL t
ProbeAnswers(n, t) ==
    IF "route" \in DOMAIN n
    THEN {r \in ProbeResults(n) : r.type \in n.route[t]}
    ELSE ProbeResults(n)

\* reverseDNS(ip): "" on failure, else the name of ip
ReverseDNSResults(ip) == {"", "host-" \o ip}
\* resolver.Resolve(ip): nil or the location of ip
ResolveResults(ip) == {"", "loc-" \o ip}

\* the addresses a name lookup can answer with, and their family (a.IP.To4() != nil)
TargetAddrs == {"t4", "t6"}
Family(ip) == IF ip = "t4" THEN 4 ELSE 6

\* net.DefaultResolver.LookupIPAddr: an error, or a list of addresses
NoAnswer == [asked |-> FALSE]
LookupFailed == [asked |-> TRUE, err |-> TRUE, addrs |-> <<>>]
LookupAnswered(as) == [asked |-> TRUE, err |-> FALSE, addrs |-> as]

\* no Probe call is being followed
NoCall == [mode |-> "none"]
NoRet == [returned |-> FALSE]
NoLog == [reads |-> 0]

ProberIdle ==
    /\ call = NoCall
    /\ ppc = "idle"
    /\ pres = NoRet
    /\ clock = 0
    /\ deadline = 0
    /\ pctx = FALSE
    /\ plog = NoLog
    /\ waiters = <<>>

\* no download of the ip2region database is under way
NoDownload == [pc |-> "idle"]
DownloadIdle == dl = NoDownload

\* no HopStats is exercised on its own
StatsIdle ==
    /\ acc = NewHopStats
    /\ samples = <<>>

(* ----------------------------------------------------------------- events *)
HopUpdated(t, r) == [Type |-> EventTypeHopUpdated, TTL |-> t, Round |-> r, Err |-> ErrNone]
RoundCompleted(r) == [Type |-> EventTypeRoundCompleted, TTL |-> 0, Round |-> r, Err |-> ErrNone]
DoneEvent == [Type |-> EventTypeDone, TTL |-> 0, Round |-> 0, Err |-> ErrNone]
ErrorEvent(e) == [Type |-> EventTypeError, TTL |-> 0, Round |-> 0, Err |-> e]

\* mutant: the channel grows without limit
ChanSendUnbounded(q, e) == Append(q, e)

\* mutant: the newest event goes to the front of the channel
ChanSendFront(q, e) == IF Len(q) < QueueCap THEN <<e>> \o q ELSE q

\* Controller.emit: select { case c.events <- e: default: }
ChanSend(q, e) == IF Len(q) < QueueCap THEN Append(q, e) ELSE q

\* emit, with the history of what was handed to it
Emit(e) ==
    /\ events' = ChanSend(events, e)
    /\ published' = Append(published, e)
    /\ eventsIdx' = IF Len(events') > Len(events)
                    THEN Append(eventsIdx, Len(published'))
                    ELSE eventsIdx

(* ------------------------------------------------------------ sync.RWMutex *)
CanLock(m) == ~m.writer /\ m.readers = {}
\* mutant: Snapshot does not wait for the writer
CanRLockAlways(m) == TRUE

CanRLock(m) == ~m.writer
MuFree == [writer |-> FALSE, readers |-> {}]

(* ------------------------------------------------------------- applyResult *)
\* mutant: the Hop is created but Sent is not incremented
ApplyCountNoSend(h, t) ==
    [h EXCEPT ![t] = IF h[t] = NoHop THEN NewHop(t) ELSE h[t]]

\* mutant: the first result creates the Hops of every TTL up to t + 1
ApplyCountEager(h, t) ==
    [x \in DOMAIN h |->
        IF x = t THEN [(IF h[t] = NoHop THEN NewHop(t) ELSE h[t]) EXCEPT !.Stats.Sent = @ + 1]
        ELSE IF x = t + 1 /\ h[x] = NoHop THEN NewHop(x) ELSE h[x]]

\* mutant: counting a result at TTL t forgets the Hops recorded beyond t
ApplyCountDropsHigher(h, t) ==
    [x \in DOMAIN h |->
        IF x = t THEN [(IF h[t] = NoHop THEN NewHop(t) ELSE h[t]) EXCEPT !.Stats.Sent = @ + 1]
        ELSE IF x > t THEN NoHop ELSE h[x]]

\* applyResult lines 132-138: look the Hop up, create it on first use, Sent++
ApplyCount(h, t) ==
    LET hop == IF h[t] = NoHop THEN NewHop(t) ELSE h[t]
    IN  [h EXCEPT ![t] = [hop EXCEPT !.Stats.Sent = @ + 1]]

\* mutant: only a nil result counts as lost, a Timeout is taken for an answer
IsLostResultNilOnly(r) == r = NoRes

\* applyResult line 139
IsLostResult(r) == r = NoRes \/ r.type = ResponseTypeTimeout \/ r.ip = NoIP

\* mutant: only the first address of a Hop counts as a change
IPChangedNever(hop, r) == hop.IP = NoIP

\* line 146: ipChanged := hop.IP == nil || !hop.IP.Equal(res.IP)
IPChanged(hop, r) == hop.IP = NoIP \/ hop.IP # r.ip

\* lines 152-153: reverseDNS is called for this result
LooksUpHost(hop, r, enableDNS) ==
    ~IsLostResult(r) /\ enableDNS /\ (hop.Hostname = "" \/ IPChanged(hop, r))

\* mutant: every answered probe asks the resolver again
LooksUpLocAlways(hop, r, geo) == ~IsLostResult(r) /\ geo

\* lines 158-161: resolver.Resolve is called for this result
LooksUpLoc(hop, r, geo) ==
    ~IsLostResult(r) /\ geo /\ (IPChanged(hop, r) \/ hop.Location = "")

\* mutant: a timeout forgets the responder and its round-trip times
ApplyRestTimeoutForgets(hop, r, enableDNS, geo, host, loc) ==
    IF IsLostResult(r)
    THEN [hop EXCEPT !.Lost = TRUE, !.IP = NoIP,
                     !.Stats = UpdateLoss([NewHopStats EXCEPT !.Sent = hop.Stats.Sent])]
    ELSE LET st == UpdateLoss(AddRTT([hop.Stats EXCEPT !.Received = @ + 1], r.rtt))
             hn == IF LooksUpHost(hop, r, enableDNS) THEN host ELSE hop.Hostname
             l0 == IF IPChanged(hop, r) THEN "" ELSE hop.Location
             l1 == IF LooksUpLoc(hop, r, geo) THEN loc ELSE l0
         IN  [hop EXCEPT !.Lost = FALSE, !.IP = r.ip, !.Stats = st,
                         !.Hostname = hn, !.Location = l1]

\* mutant: an answer does not clear the lost flag
ApplyRestLostSticky(hop, r, enableDNS, geo, host, loc) ==
    IF IsLostResult(r)
    THEN [hop EXCEPT !.Lost = TRUE, !.Stats = UpdateLoss(@)]
    ELSE LET st == UpdateLoss(AddRTT([hop.Stats EXCEPT !.Received = @ + 1], r.rtt))
             hn == IF LooksUpHost(hop, r, enableDNS) THEN host ELSE hop.Hostname
             l0 == IF IPChanged(hop, r) THEN "" ELSE hop.Location
             l1 == IF LooksUpLoc(hop, r, geo) THEN loc ELSE l0
         IN  [hop EXCEPT !.IP = r.ip, !.Stats = st, !.Hostname = hn, !.Location = l1]

\* applyResult lines 139-163 on one Hop; host and loc are what reverseDNS and
\* resolver.Resolve return if they are called
ApplyRest(hop, r, enableDNS, geo, host, loc) ==
    IF IsLostResult(r)
    THEN [hop EXCEPT !.Lost = TRUE, !.Stats = UpdateLoss(@)]
    ELSE LET st == UpdateLoss(AddRTT([hop.Stats EXCEPT !.Received = @ + 1], r.rtt))
             hn == IF LooksUpHost(hop, r, enableDNS) THEN host ELSE hop.Hostname
             l0 == IF IPChanged(hop, r) THEN "" ELSE hop.Location
             l1 == IF LooksUpLoc(hop, r, geo) THEN loc ELSE l0
         IN  [hop EXCEPT !.Lost = FALSE, !.IP = r.ip, !.Stats = st,
                         !.Hostname = hn, !.Location = l1]

\* the addresses handed to reverseDNS (host) and to resolver.Resolve (loc) for a Hop
NoLookups == [host |-> <<>>, loc |-> <<>>]

\* the lookups of applyResult lines 152-163 added to the history of the Hop
RecordLookups(l, hop, r, enableDNS, geo) ==
    [host |-> IF LooksUpHost(hop, r, enableDNS) THEN Append(l.host, r.ip) ELSE l.host,
     loc |-> IF LooksUpLoc(hop, r, geo) THEN Append(l.loc, r.ip) ELSE l.loc]

(* ---------------------------------------------------------------- Snapshot *)
\* durations are counted in half milliseconds
\* durationMs: d.Round(time.Millisecond).Milliseconds(), 0 for d <= 0
durationMs(d) == IF d <= 0 THEN 0 ELSE (d + 1) \div 2
\* durationStringMs
durationStringMs(d) == IF d <= 0 THEN "" ELSE ToString(durationMs(d)) \o "ms"

\* mutant: the history list handed out is the Hop's own buffer
ToSnapshotSharesHistory(h) ==
    [TTL |-> h.TTL, IP |-> IF h.IP = NoIP THEN "" ELSE h.IP, Hostname |-> h.Hostname,
     Lost |-> h.Lost, Location |-> h.Location, Aliases |-> {"HistoryMs"},
     Stats |-> [Sent |-> h.Stats.Sent, Received |-> h.Stats.Received, Loss |-> h.Stats.Loss,
                LastMs |-> durationMs(h.Stats.Last), AvgMs |-> durationMs(h.Stats.Avg),
                BestMs |-> durationMs(h.Stats.Best), WorstMs |-> durationMs(h.Stats.Worst),
                StdDevMs |-> durationMs(h.Stats.StdDev),
                HistoryMs |-> [i \in 1..Len(h.Stats.History) |->
                                  durationMs(h.Stats.History[i])],
                Last |-> durationStringMs(h.Stats.Last), Best |-> durationStringMs(h.Stats.Best),
                Worst |-> durationStringMs(h.Stats.Worst),
                Avg |-> durationStringMs(h.Stats.Avg),
                StdDev |-> durationStringMs(h.Stats.StdDev)]]

\* Hop.ToSnapshot
ToSnapshot(h) ==
    [TTL |-> h.TTL, IP |-> IF h.IP = NoIP THEN "" ELSE h.IP, Hostname |-> h.Hostname,
     Lost |-> h.Lost, Location |-> h.Location, Aliases |-> {},
     Stats |-> [Sent |-> h.Stats.Sent, Received |-> h.Stats.Received, Loss |-> h.Stats.Loss,
                LastMs |-> durationMs(h.Stats.Last), AvgMs |-> durationMs(h.Stats.Avg),
                BestMs |-> durationMs(h.Stats.Best), WorstMs |-> durationMs(h.Stats.Worst),
                StdDevMs |-> durationMs(h.Stats.StdDev),
                HistoryMs |-> [i \in 1..Len(h.Stats.History) |->
                                  durationMs(h.Stats.History[i])],
                Last |-> durationStringMs(h.Stats.Last), Best |-> durationStringMs(h.Stats.Best),
                Worst |-> durationStringMs(h.Stats.Worst),
                Avg |-> durationStringMs(h.Stats.Avg),
                StdDev |-> durationStringMs(h.Stats.StdDev)]]

\* the TTLs present in a registry, and the registry's Hops sorted by TTL
HopTTLs(h) == {t \in DOMAIN h : h[t] # NoHop}

RECURSIVE SortedHops(_, _)
SortedHops(h, ts) ==
    IF ts = {} THEN <<>>
    ELSE LET t == CHOOSE x \in ts : \A y \in ts : x <= y
         IN  <<ToSnapshot(h[t])>> \o SortedHops(h, ts \ {t})

\* mutant: the Hops are listed without the sort, in an order the map iteration can
\* give (here: from the highest TTL down)
MakeSnapshotUnsorted(h, tip, c) ==
    [taken |-> TRUE, SchemaVersion |-> 1, TargetIP |-> tip, MaxHops |-> c.maxHops,
     Count |-> c.count,
     Hops |-> [i \in 1..Cardinality(HopTTLs(h)) |->
                  SortedHops(h, HopTTLs(h))[Cardinality(HopTTLs(h)) + 1 - i]]]

\* Controller.Snapshot lines 170-189
MakeSnapshot(h, tip, c) ==
    [taken |-> TRUE, SchemaVersion |-> 1, TargetIP |-> tip, MaxHops |-> c.maxHops,
     Count |-> c.count, Hops |-> SortedHops(h, HopTTLs(h))]

(* -------------------------------------------------------------------- Init *)
Configs ==
    [maxHops : 1..MaxHops, count : 0..MaxRounds, enableDNS : {FALSE}, geo : {FALSE},
     ipVersion : {4}]

ResponseTypes == {ResponseTypeEchoReply, ResponseTypeTimeExceeded, ResponseTypeDestUnreach}

\* one responder address (or an unreadable peer address), one round-trip time
PlainNet ==
    [types |-> ResponseTypes, ips |-> {"a", NoIP}, rtts |-> {3},
     lookup |-> {LookupFailed, LookupAnswered(<<"t4">>)}]

RunInit(c, n) ==
    /\ cfg = c
    /\ net = n
    /\ targetIP = ""
    /\ pc = "resolve"
    /\ round = 0
    /\ ttl = 0
    /\ res = NoRes
    /\ ctxDone = FALSE
    /\ hops = [t \in 1..c.maxHops |-> NoHop]
    /\ mu = MuFree
    /\ events = <<>>
    /\ closed = 0
    /\ retval = "running"
    /\ rpc = [r \in Readers |-> "idle"]
    /\ snap = [r \in Readers |-> NoSnap]
    /\ delivered = <<>>
    /\ consumerDone = FALSE
    /\ published = <<>>
    /\ eventsIdx = <<>>
    /\ deliveredIdx = <<>>
    /\ sweep = <<>>
    /\ probes = [t \in 1..c.maxHops |-> 0]
    /\ applied = [t \in 1..c.maxHops |-> 0]
    /\ committed = [t \in 1..c.maxHops |-> NoHop]
    /\ fatal = FALSE
    /\ cancelAt = "never"
    /\ lookups = [t \in 1..c.maxHops |-> NoLookups]
    /\ answer = NoAnswer
    /\ seqs = <<>>
    /\ held = [r \in Readers |-> NoSnap]

\* a Controller as NewController returns it; no Probe call is followed
InitWith(c, n) == RunInit(c, n) /\ ProberIdle /\ StatsIdle /\ DownloadIdle

Init == \E c \in Configs : InitWith(c, PlainNet)

(* --------------------------------------------------------- Controller.Run *)
\* rounds := c.config.Count; if rounds == 0 { rounds = -1 }
Rounds == IF cfg.count = 0 THEN -1 ELSE cfg.count

\* Prober.SetTarget: fails only on a nil address
SetTargetOK(ip) == ip # NoIP

\* mutant: only the normal return closes the channel
ReturnNoClose(e) ==
    /\ retval' = e
    /\ pc' = IF e = ErrNone THEN "return" ELSE "returned"

\* return err / return nil: the value is fixed, the deferred close is still to run
ReturnWith(e) ==
    /\ retval' = e
    /\ pc' = "return"

\* mutant: the first address answered is taken whatever its family
resolveTargetIPAnyFamily(ans, ipVersion) ==
    IF ans.err \/ ans.addrs = <<>> THEN NoIP ELSE ans.addrs[1]

\* resolveTargetIP: the first address of the requested family, NoIP with an error
\* when the lookup failed or answered no such address
resolveTargetIP(ans, ipVersion) ==
    IF ans.err \/ ~\E i \in 1..Len(ans.addrs) : Family(ans.addrs[i]) = ipVersion
    THEN NoIP
    ELSE ans.addrs[CHOOSE i \in 1..Len(ans.addrs) :
                      /\ Family(ans.addrs[i]) = ipVersion
                      /\ \A j \in 1..(i - 1) : Family(ans.addrs[j]) # ipVersion]

\* lines 75-86: resolveTargetIP, c.config.TargetIP under c.mu, prober.SetTarget
Resolve ==
    /\ pc = "resolve"
    /\ \E ans \in net.lookup :
          LET ip == resolveTargetIP(ans, cfg.ipVersion)
          IN  /\ answer' = ans
              /\ IF ip = NoIP
                 THEN /\ Emit(ErrorEvent(ErrResolve))
                      /\ ReturnWith(ErrResolve)
                      /\ UNCHANGED <<targetIP, round>>
                 ELSE /\ CanLock(mu)
                      /\ targetIP' = ip
                      /\ IF SetTargetOK(ip)
                         THEN /\ pc' = "loop"
                              /\ round' = 0
                              /\ UNCHANGED <<events, eventsIdx, published, retval>>
                         ELSE /\ Emit(ErrorEvent(ErrSetTarget))
                              /\ ReturnWith(ErrSetTarget)
                              /\ UNCHANGED round
    /\ UNCHANGED <<cfg, ttl, res, ctxDone, hops, mu, closed, rpc, snap, delivered,
                   deliveredIdx, consumerDone, sweep, probes, applied, committed, fatal,
                   cancelAt, net,
                   lookups, seqs, held, proberVars, statsVars, waiters, dl>>

\* mutant: the loop runs one round too many
LoopCondOffByOne(rounds, r) == rounds < 0 \/ r <= rounds

\* line 93: the loop condition
LoopCond(rounds, r) == rounds < 0 \/ r < rounds

\* mutant: the round starts without looking at ctx.Err()
RoundStartNoCtxCheck ==
    /\ pc = "loop"
    /\ IF ~LoopCond(Rounds, round)
       THEN /\ Emit(DoneEvent)
            /\ ReturnWith(ErrNone)
            /\ UNCHANGED <<ttl, sweep>>
       ELSE /\ cfg.count = 0 => round < MaxRounds
            /\ ttl' = 1
            /\ sweep' = <<>>
            /\ pc' = "probe"
            /\ UNCHANGED <<events, eventsIdx, published, retval>>
    /\ UNCHANGED <<cfg, targetIP, round, res, ctxDone, hops, mu, closed, rpc, snap,
                   delivered, deliveredIdx, consumerDone, probes, applied, committed,
                   fatal, cancelAt, net,
                   lookups, answer, seqs, held, proberVars, statsVars, waiters, dl>>

\* mutant: the sweep of a round starts at the highest TTL
RoundStartFromTop ==
    /\ pc = "loop"
    /\ IF ~LoopCond(Rounds, round)
       THEN /\ Emit(DoneEvent)
            /\ ReturnWith(ErrNone)
            /\ UNCHANGED <<ttl, sweep>>
       ELSE IF ctxDone
       THEN /\ Emit(ErrorEvent(ErrCtx))
            /\ ReturnWith(ErrCtx)
            /\ UNCHANGED <<ttl, sweep>>
       ELSE /\ cfg.count = 0 => round < MaxRounds
            /\ ttl' = cfg.maxHops
            /\ sweep' = <<>>
            /\ pc' = "probe"
            /\ UNCHANGED <<events, eventsIdx, published, retval>>
    /\ UNCHANGED <<cfg, targetIP, round, res, ctxDone, hops, mu, closed, rpc, snap,
                   delivered, deliveredIdx, consumerDone, probes, applied, committed,
                   fatal, cancelAt, net,
                   lookups, answer, seqs, held, proberVars, statsVars, waiters, dl>>

\* lines 93-99 and 124-125: loop test, ctx.Err() check, start of the TTL sweep
RoundStart ==
    /\ pc = "loop"
    /\ IF ~LoopCond(Rounds, round)
       THEN /\ Emit(DoneEvent)
            /\ ReturnWith(ErrNone)
            /\ UNCHANGED <<ttl, sweep>>
       ELSE IF ctxDone
       THEN /\ Emit(ErrorEvent(ErrCtx))
            /\ ReturnWith(ErrCtx)
            /\ UNCHANGED <<ttl, sweep>>
       ELSE /\ cfg.count = 0 => round < MaxRounds
            /\ ttl' = 1
            /\ sweep' = <<>>
            /\ pc' = "probe"
            /\ UNCHANGED <<events, eventsIdx, published, retval>>
    /\ UNCHANGED <<cfg, targetIP, round, res, ctxDone, hops, mu, closed, rpc, snap,
                   delivered, deliveredIdx, consumerDone, probes, applied, committed,
                   fatal, cancelAt, net,
                   lookups, answer, seqs, held, proberVars, statsVars, waiters, dl>>

\* mutant: the stride between rounds is one short of the sweep's length
ProbeSeqShortStride(r, t, maxHops) == r * (maxHops - 1) + t

\* line 100: seq := round*c.config.MaxHops + ttl
ProbeSeq(r, t, maxHops) == r * maxHops + t

\* mutant: the HopUpdated event is published when the result arrives, before it is
\* applied
ProbeReturnPublishesFirst ==
    /\ pc = "probe"
    /\ seqs' = Append(seqs, ProbeSeq(round, ttl, cfg.maxHops))
    /\ \E r \in ProbeAnswers(net, ttl) :
          /\ res' = r
          /\ sweep' = Append(sweep, <<ttl, r.type>>)
    /\ probes' = [probes EXCEPT ![ttl] = @ + 1]
    /\ pc' = "apply"
    /\ Emit(HopUpdated(ttl, round))
    /\ UNCHANGED <<cfg, targetIP, round, ttl, ctxDone, hops, mu, closed,
                   retval, rpc, snap, delivered, deliveredIdx, consumerDone,
                   applied, committed, fatal, cancelAt, net,
                   lookups, answer, held, proberVars, statsVars, waiters, dl>>

\* lines 100-101: Probe returns a result
ProbeReturn ==
    /\ pc = "probe"
    /\ seqs' = Append(seqs, ProbeSeq(round, ttl, cfg.maxHops))
    /\ \E r \in ProbeAnswers(net, ttl) :
          /\ res' = r
          /\ sweep' = Append(sweep, <<ttl, r.type>>)
    /\ probes' = [probes EXCEPT ![ttl] = @ + 1]
    /\ pc' = "apply"
    /\ UNCHANGED <<cfg, targetIP, round, ttl, ctxDone, hops, mu, events, eventsIdx, closed,
                   retval, rpc, snap, delivered, deliveredIdx, consumerDone, published,
                   applied, committed, fatal, cancelAt, net,
                   lookups, answer, held, proberVars, statsVars, waiters, dl>>

\* mutant: the error is reported but the return is missing, the nil result is applied
ProbeFatalContinues ==
    /\ pc = "probe"
    /\ seqs' = Append(seqs, ProbeSeq(round, ttl, cfg.maxHops))
    /\ probes' = [probes EXCEPT ![ttl] = @ + 1]
    /\ Emit(ErrorEvent(ErrProbe))
    /\ retval' = ErrProbe
    /\ res' = NoRes
    /\ pc' = "apply"
    /\ fatal' = TRUE
    /\ UNCHANGED <<cfg, targetIP, round, ttl, ctxDone, hops, mu, closed, rpc, snap,
                   delivered, deliveredIdx, consumerDone, sweep, applied, committed,
                   cancelAt, net,
                   lookups, answer, held, proberVars, statsVars, waiters, dl>>

\* lines 101-105: Probe returns an error
ProbeFatal ==
    /\ pc = "probe"
    /\ seqs' = Append(seqs, ProbeSeq(round, ttl, cfg.maxHops))
    /\ probes' = [probes EXCEPT ![ttl] = @ + 1]
    /\ Emit(ErrorEvent(ErrProbe))
    /\ ReturnWith(ErrProbe)
    /\ fatal' = TRUE
    /\ UNCHANGED <<cfg, targetIP, round, ttl, res, ctxDone, hops, mu, closed, rpc, snap,
                   delivered, deliveredIdx, consumerDone, sweep, applied, committed,
                   cancelAt, net,
                   lookups, answer, held, proberVars, statsVars, waiters, dl>>

\* applyResult lines 129-138: c.mu.Lock(), Hop lookup/creation, Sent++
ApplyBegin ==
    /\ pc = "apply"
    /\ CanLock(mu)
    /\ mu' = [mu EXCEPT !.writer = TRUE]
    /\ hops' = ApplyCount(hops, ttl)
    /\ pc' = "apply2"
    /\ UNCHANGED <<cfg, targetIP, round, ttl, res, ctxDone, events, eventsIdx, closed,
                   retval, rpc, snap, delivered, deliveredIdx, consumerDone, published,
                   sweep, probes, applied, committed, fatal, cancelAt, net,
                   lookups, answer, seqs, held, proberVars, statsVars, waiters, dl>>

\* applyResult lines 139-164: the rest of the update, then the deferred Unlock
ApplyEnd ==
    /\ pc = "apply2"
    /\ \E host \in ReverseDNSResults(res.ip), loc \in ResolveResults(res.ip) :
          hops' = [hops EXCEPT ![ttl] = ApplyRest(@, res, cfg.enableDNS, cfg.geo, host, loc)]
    /\ lookups' = [lookups EXCEPT
                      ![ttl] = RecordLookups(@, hops[ttl], res, cfg.enableDNS, cfg.geo)]
    /\ mu' = [mu EXCEPT !.writer = FALSE]
    /\ committed' = hops'
    /\ applied' = [applied EXCEPT ![ttl] = @ + 1]
    /\ pc' = "emitHop"
    /\ UNCHANGED <<cfg, targetIP, round, ttl, res, ctxDone, events, eventsIdx, closed,
                   retval, rpc, snap, delivered, deliveredIdx, consumerDone, published,
                   sweep, probes, fatal, cancelAt, net,
                   answer, seqs, held, proberVars, statsVars, waiters, dl>>

\* mutant: the sweep never breaks on an EchoReply
SweepEndsNever(r) == FALSE

\* mutant: any answer ends the sweep, a router's as well as the target's
SweepEndsOnAnyAnswer(r) == r # NoRes /\ r.type # ResponseTypeTimeout

\* lines 108-110: the sweep of this round ends on an EchoReply
SweepEnds(r) == r # NoRes /\ r.type = ResponseTypeEchoReply

\* lines 107-111 and the ttl++ of the for statement
EmitHop ==
    /\ pc = "emitHop"
    /\ Emit(HopUpdated(ttl, round))
    /\ IF SweepEnds(res) \/ ttl + 1 > cfg.maxHops
       THEN /\ pc' = "roundEnd"
            /\ ttl' = ttl
       ELSE /\ pc' = "probe"
            /\ ttl' = ttl + 1
    /\ res' = NoRes
    /\ UNCHANGED <<cfg, targetIP, round, ctxDone, hops, mu, closed, retval, rpc, snap,
                   delivered, deliveredIdx, consumerDone, sweep, probes, applied,
                   committed, fatal, cancelAt, net,
                   lookups, answer, seqs, held, proberVars, statsVars, waiters, dl>>

\* mutant: an interval follows every round, the last one too
WaitsAfterAlways(rounds, r) == TRUE

\* line 114: an interval follows every round but the last configured one
WaitsAfter(rounds, r) == rounds < 0 \/ r # rounds - 1

\* lines 113-114
RoundEnd ==
    /\ pc = "roundEnd"
    /\ Emit(RoundCompleted(round))
    /\ IF WaitsAfter(Rounds, round)
       THEN /\ pc' = "wait"
            /\ round' = round
       ELSE /\ pc' = "loop"
            /\ round' = round + 1
    /\ UNCHANGED <<cfg, targetIP, ttl, res, ctxDone, hops, mu, closed, retval, rpc, snap,
                   delivered, deliveredIdx, consumerDone, sweep, probes, applied,
                   committed, fatal, cancelAt, net,
                   lookups, answer, seqs, held, proberVars, statsVars, waiters, dl>>

\* mutant: the cancellation seen in the wait is reported and the loop goes on
WaitCancelledGoesOn ==
    /\ pc = "wait"
    /\ ctxDone
    /\ Emit(ErrorEvent(ErrCtx))
    /\ pc' = "loop"
    /\ round' = round + 1
    /\ UNCHANGED <<cfg, targetIP, retval, ttl, res, ctxDone, hops, mu, closed, rpc, snap,
                   delivered, deliveredIdx, consumerDone, sweep, probes, applied,
                   committed, fatal, cancelAt, net,
                   lookups, answer, seqs, held, proberVars, statsVars, waiters, dl>>

\* lines 115-118: select receives from ctx.Done()
WaitCancelled ==
    /\ pc = "wait"
    /\ ctxDone
    /\ Emit(ErrorEvent(ErrCtx))
    /\ ReturnWith(ErrCtx)
    /\ UNCHANGED <<cfg, targetIP, round, ttl, res, ctxDone, hops, mu, closed, rpc, snap,
                   delivered, deliveredIdx, consumerDone, sweep, probes, applied,
                   committed, fatal, cancelAt, net,
                   lookups, answer, seqs, held, proberVars, statsVars, waiters, dl>>

\* line 119: select receives from time.After(c.config.Interval)
WaitElapsed ==
    /\ pc = "wait"
    /\ round' = round + 1
    /\ pc' = "loop"
    /\ UNCHANGED <<cfg, targetIP, ttl, res, ctxDone, hops, mu, events, eventsIdx, closed,
                   retval, rpc, snap, delivered, deliveredIdx, consumerDone, published,
                   sweep, probes, applied, committed, fatal, cancelAt, net,
                   lookups, answer, seqs, held, proberVars, statsVars, waiters, dl>>

\* lines 69-73: the deferred close(c.events) as Run returns
CloseEvents ==
    /\ pc = "return"
    /\ closed' = closed + 1
    /\ pc' = "returned"
    /\ UNCHANGED <<cfg, targetIP, round, ttl, res, ctxDone, hops, mu, events, eventsIdx,
                   retval, rpc, snap, delivered, deliveredIdx, consumerDone, published,
                   sweep, probes, applied, committed, fatal, cancelAt, net,
                   lookups, answer, seqs, held, proberVars, statsVars, waiters, dl>>

(* ------------------------------------------------------------- environment *)
\* Run is inside the TTL sweep of a round (lines 99-111)
InSweep == pc \in {"probe", "apply", "apply2", "emitHop"}

\* the caller cancels the context handed to Run
Cancel ==
    /\ ~ctxDone
    /\ pc # "returned"
    /\ ctxDone' = TRUE
    /\ cancelAt' = IF InSweep THEN "sweep" ELSE IF pc = "wait" THEN "wait" ELSE "other"
    /\ UNCHANGED <<cfg, targetIP, pc, round, ttl, res, hops, mu, events, eventsIdx, closed,
                   retval, rpc, snap, delivered, deliveredIdx, consumerDone, published,
                   sweep, probes, applied, committed, fatal, net,
                   lookups, answer, seqs, held, proberVars, statsVars, waiters, dl>>

\* waitForEvent: ev, ok := <-ch
Consume ==
    /\ ~consumerDone
    /\ IF events # <<>>
       THEN /\ delivered' = Append(delivered, Head(events))
            /\ events' = Tail(events)
            /\ deliveredIdx' = Append(deliveredIdx, Head(eventsIdx))
            /\ eventsIdx' = Tail(eventsIdx)
            /\ UNCHANGED consumerDone
       ELSE /\ closed > 0
            /\ consumerDone' = TRUE
            /\ UNCHANGED <<delivered, deliveredIdx, events, eventsIdx>>
    /\ UNCHANGED <<cfg, targetIP, pc, round, ttl, res, ctxDone, hops, mu, closed, retval,
                   rpc, snap, published, sweep, probes, applied, committed, fatal,
                   cancelAt, net,
                   lookups, answer, seqs, held, proberVars, statsVars, waiters, dl>>

\* Controller.Snapshot lines 167-189: RLock and the copy
SnapshotBegin(r) ==
    /\ rpc[r] = "idle"
    /\ CanRLock(mu)
    /\ mu' = [mu EXCEPT !.readers = @ \cup {r}]
    /\ snap' = [snap EXCEPT ![r] = MakeSnapshot(hops, targetIP, cfg)]
    /\ rpc' = [rpc EXCEPT ![r] = "reading"]
    /\ UNCHANGED <<cfg, targetIP, pc, round, ttl, res, ctxDone, hops, events, eventsIdx,
                   closed, retval, delivered, deliveredIdx, consumerDone, published, sweep,
                   probes, applied, committed, fatal, cancelAt, net,
                   lookups, answer, seqs, held, proberVars, statsVars, waiters, dl>>

\* Controller.Snapshot: the deferred RUnlock and the return
SnapshotEnd(r) ==
    /\ rpc[r] = "reading"
    /\ mu' = [mu EXCEPT !.readers = @ \ {r}]
    /\ snap' = [snap EXCEPT ![r] = NoSnap]
    /\ rpc' = [rpc EXCEPT ![r] = "idle"]
    /\ UNCHANGED <<cfg, targetIP, pc, round, ttl, res, ctxDone, hops, events, eventsIdx,
                   closed, retval, delivered, deliveredIdx, consumerDone, published, sweep,
                   probes, applied, committed, fatal, cancelAt, net,
                   lookups, answer, seqs, held, proberVars, statsVars, waiters, dl>>

\* Controller.Snapshot returns to a caller that keeps the value (part_006 line 82:
\* m.snapshot = m.controller.Snapshot())
SnapshotKeep(r) ==
    /\ rpc[r] = "reading"
    /\ mu' = [mu EXCEPT !.readers = @ \ {r}]
    /\ snap' = [snap EXCEPT ![r] = NoSnap]
    /\ held' = [held EXCEPT ![r] = snap[r]]
    /\ rpc' = [rpc EXCEPT ![r] = "idle"]
    /\ UNCHANGED <<cfg, targetIP, pc, round, ttl, res, ctxDone, hops, events, eventsIdx,
                   closed, retval, delivered, deliveredIdx, consumerDone, published, sweep,
                   probes, applied, committed, fatal, cancelAt, net,
                   lookups, answer, seqs, proberVars, statsVars, waiters, dl>>

\* the steps of Controller.Run
RunStep ==
    \/ Resolve
    \/ RoundStart
    \/ ProbeReturn
    \/ ProbeFatal
    \/ ApplyBegin
    \/ ApplyEnd
    \/ EmitHop
    \/ RoundEnd
    \/ WaitCancelled
    \/ WaitElapsed
    \/ CloseEvents

\* a run and its cancellation, on a network with one responder address
Next ==
    \/ RunStep
    \/ Cancel

Spec == Init /\ [][Next]_vars

\* the runs of a configured number of rounds when the goroutine executing Run keeps
\* being scheduled: every Probe call returns (its read has a deadline), the interval
\* timer fires, and nobody else holds c.mu
FairConfigs ==
    [maxHops : 1..MaxHops, count : 1..MaxRounds, enableDNS : {FALSE}, geo : {FALSE},
     ipVersion : {4}]

\* one responder address answering as the target or as a router, or not at all
FairNet ==
    [types |-> {ResponseTypeEchoReply, ResponseTypeTimeExceeded}, ips |-> {"a"},
     rtts |-> {3}, lookup |-> {LookupFailed, LookupAnswered(<<"t4">>)}]

InitFair == \E c \in FairConfigs : InitWith(c, FairNet)

SpecFair == InitFair /\ [][Next]_vars /\ WF_vars(RunStep)

\* a run, its cancellation, and the consumer of its events
NextConsumed ==
    \/ RunStep
    \/ Cancel
    \/ Consume

SpecConsumed == InitFair /\ [][NextConsumed]_vars

\* a run over one TTL with concurrent Snapshot callers, on a network with two
\* responder addresses and two round-trip times, hostname and location lookups on
SnapConfigs ==
    [maxHops : {1}, count : 1..MaxRounds, enableDNS : {TRUE}, geo : {TRUE}, ipVersion : {4}]

RichNet ==
    [types |-> {ResponseTypeEchoReply, ResponseTypeTimeExceeded},
     ips |-> {"a", "b"}, rtts |-> {1, 3},
     lookup |-> {LookupFailed, LookupAnswered(<<"t4">>)}]

InitSnap == \E c \in SnapConfigs : InitWith(c, RichNet)

NextSnap ==
    \/ RunStep
    \/ Cancel
    \/ \E r \in Readers : SnapshotBegin(r)
    \/ \E r \in Readers : SnapshotEnd(r)

SpecSnap == InitSnap /\ [][NextSnap]_vars

\* a run over one TTL on the network with two responder addresses, with the hostname
\* lookup and the location resolver each switched on or off
LookupConfigs ==
    [maxHops : {1}, count : 0..MaxRounds, enableDNS : BOOLEAN, geo : BOOLEAN,
     ipVersion : {4}]

InitLookup == \E c \in LookupConfigs : InitWith(c, RichNet)

SpecLookup == InitLookup /\ [][Next]_vars

\* a run of two rounds over one TTL towards a target whose name lookup fails or
\* answers with any list of up to MaxAddrs addresses, for either address family
SetupConfigs ==
    [maxHops : {1}, count : {2}, enableDNS : {FALSE}, geo : {FALSE}, ipVersion : {4, 6}]

SetupNet ==
    [types |-> ResponseTypes, ips |-> {"a", NoIP}, rtts |-> {3},
     lookup |-> {LookupFailed}
                \cup {LookupAnswered(as) :
                         as \in UNION {[1..k -> TargetAddrs] : k \in 0..MaxAddrs}}]

InitSetup == \E c \in SetupConfigs : InitWith(c, SetupNet)

SpecSetup == InitSetup /\ [][Next]_vars

\* a run of FloodCount rounds over one TTL towards a target that never answers,
\* with a consumer that may read the channel at any time or not at all
FloodConfig ==
    [maxHops |-> 1, count |-> FloodCount, enableDNS |-> FALSE, geo |-> FALSE,
     ipVersion |-> 4]

SilentNet ==
    [types |-> {}, ips |-> {}, rtts |-> {},
     lookup |-> {LookupFailed, LookupAnswered(<<"t4">>)}]

InitFlood == InitWith(FloodConfig, SilentNet)

\* the context of this run is never cancelled
NextFlood ==
    \/ Resolve
    \/ RoundStart
    \/ ProbeReturn
    \/ ProbeFatal
    \/ ApplyBegin
    \/ ApplyEnd
    \/ EmitHop
    \/ RoundEnd
    \/ WaitElapsed
    \/ CloseEvents
    \/ Consume

SpecFlood == InitFlood /\ [][NextFlood]_vars

\* a route of fixed length: every probe below RouteTargetTTL is answered Time Exceeded
\* by a router, every probe at RouteTargetTTL is answered Echo Reply by the target
RouteConfig ==
    [maxHops |-> RouteMaxHops, count |-> RouteRounds, enableDNS |-> FALSE, geo |-> FALSE,
     ipVersion |-> 4]

RouteNet ==
    [types |-> {ResponseTypeEchoReply, ResponseTypeTimeExceeded},
     ips |-> {"a", "b"}, rtts |-> {3},
     lookup |-> {LookupFailed, LookupAnswered(<<"t4">>)},
     route |-> [t \in 1..RouteMaxHops |->
                   IF t < RouteTargetTTL THEN {ResponseTypeTimeExceeded}
                   ELSE IF t = RouteTargetTTL THEN {ResponseTypeEchoReply}
                   ELSE ResponseTypes \cup {ResponseTypeTimeout}]]

InitRoute == InitWith(RouteConfig, RouteNet)

\* no Probe call fails and the context is never cancelled
NextRoute ==
    \/ Resolve
    \/ RoundStart
    \/ ProbeReturn
    \/ ApplyBegin
    \/ ApplyEnd
    \/ EmitHop
    \/ RoundEnd
    \/ WaitElapsed
    \/ CloseEvents

SpecRoute == InitRoute /\ [][NextRoute]_vars

\* a HopStats on its own, as stats_test.go exercises it: durations are whole
\* nanoseconds, a few short ones in any order, or the two of TestHopStats_StdDev
\* (there in milliseconds)
RTTs == {0, 1, 3}
LateRTTs == {0, 3}
TestRTTs == {10, 20}

NextRTTs(done) ==
    IF done = <<>> THEN RTTs \cup TestRTTs
    ELSE IF done[1] \in TestRTTs THEN (IF Len(done) < 2 THEN TestRTTs ELSE {})
    ELSE IF Len(done) < VariedSamples THEN RTTs
    ELSE LateRTTs

\* s.AddRTT(rtt)
Record(rtt) ==
    /\ acc.Sent = 0 /\ acc.Received = 0
    /\ Len(samples) < MaxSamples
    /\ rtt \in NextRTTs(samples)
    /\ acc' = AddRTT(acc, rtt)
    /\ samples' = Append(samples, rtt)
    /\ UNCHANGED <<runVars, proberVars, waiters, dl>>

\* s.Sent = sent; s.Received = received; s.UpdateLoss()
Recount(sent, received) ==
    /\ samples = <<>>
    /\ acc' = UpdateLoss([acc EXCEPT !.Sent = sent, !.Received = received])
    /\ UNCHANGED <<runVars, proberVars, samples, waiters, dl>>

InitStats == RunInit(FloodConfig, SilentNet) /\ ProberIdle /\ StatsIdle /\ DownloadIdle

NextStats ==
    \/ \E rtt \in RTTs \cup TestRTTs : Record(rtt)
    \/ \E sent \in 0..MaxCount, received \in 0..MaxCount : Recount(sent, received)

SpecStats == InitStats /\ [][NextStats]_vars

\* the goroutine of the TUI: it receives the events and is the one caller of Snapshot
Watcher == CHOOSE r \in Readers : \A x \in Readers : r <= x

\* a run whose Snapshots the caller keeps, as the TUI does (part_006 lines 82-92);
\* the context of this run is never cancelled
InitHeld == \E c \in SnapConfigs : InitWith(c, RichNet)

NextHeld ==
    \/ Resolve
    \/ RoundStart
    \/ ProbeReturn
    \/ ProbeFatal
    \/ ApplyBegin
    \/ ApplyEnd
    \/ EmitHop
    \/ RoundEnd
    \/ WaitElapsed
    \/ CloseEvents
    \/ SnapshotBegin(Watcher)
    \/ SnapshotKeep(Watcher)

SpecHeld == InitHeld /\ [][NextHeld]_vars

\* a run watched the way the TUI watches it (part_006): a consumer receives the events
\* and, being one goroutine, is also the one caller of Snapshot; the context of this
\* run is never cancelled
InitWatch == \E c \in FairConfigs : InitWith(c, FairNet)

NextWatch ==
    \/ Resolve
    \/ RoundStart
    \/ ProbeReturn
    \/ ProbeFatal
    \/ ApplyBegin
    \/ ApplyEnd
    \/ EmitHop
    \/ RoundEnd
    \/ WaitElapsed
    \/ CloseEvents
    \/ Consume
    \/ SnapshotBegin(Watcher)
    \/ SnapshotEnd(Watcher)

SpecWatch == InitWatch /\ [][NextWatch]_vars

(* ------------------------------------------------------------ Prober.Probe *)
\* ICMPProber.id (the process id, 16 bits), another process's identifier, the local
\* port of the UDP socket of a probe (0 when LocalAddr cannot be read), another port
ProberID == 7
Ids == {ProberID, ProberID + 1}
LocalPort == 40000
SrcPorts == {LocalPort, LocalPort + 1}
\* the seq arguments followed; both share one destination port
ProbeSeqs == {1, PortSpan + 1}
\* sequence numbers and destination ports carried by inbound messages
WireSeqs == {1, 2}
DstPorts == {BasePort + 1, BasePort + 2}

\* a call Probe(ctx, ttl, seq) on a prober: ICMPProber ("icmp") or UDPProber ("udp");
\* ctxDeadline is the caller's deadline, 0 when ctx has none
Calls ==
    {c \in [mode : {"icmp", "udp"}, ipVersion : {4, 6}, id : {ProberID}, seq : ProbeSeqs,
            localPort : {0, LocalPort}, timeout : 1..MaxTimeout,
            ctxDeadline : {0, 1, MaxTimeout}] :
        c.mode = "icmp" => c.localPort = 0}

\* the original datagram quoted by an ICMP error: len bytes of which the first are an
\* IP header announcing hlen bytes of header
FragShapes ==
    {[len |-> 0, hlen |-> IPv4HeaderLen],
     [len |-> IPv4HeaderLen + QuotedTransportLen - 1, hlen |-> IPv4HeaderLen],
     [len |-> IPv4HeaderLen + QuotedTransportLen, hlen |-> 0],
     [len |-> IPv4HeaderLen + QuotedTransportLen, hlen |-> IPv4HeaderLen],
     [len |-> IPv6HeaderLen + QuotedTransportLen - 1, hlen |-> IPv4HeaderLen],
     [len |-> IPv6HeaderLen + QuotedTransportLen, hlen |-> IPv4HeaderLen]}

\* what icmp.ParseMessage makes of the bytes after the quoted IP header: an error, or
\* a message whose body is an *icmp.Echo (types Echo and EchoReply) or another body
QuotedUnparsed == [ok |-> FALSE, kind |-> "none", id |-> 0, seq |-> 0]
QuotedMessages ==
    {QuotedUnparsed, [ok |-> TRUE, kind |-> "TimeExceeded", id |-> ProberID, seq |-> 1]}
    \cup [ok : {TRUE}, kind : {"Echo", "EchoReply"}, id : Ids, seq : WireSeqs]

\* an inbound packet icmp.ParseMessage rejects
Garbage == [kind |-> "garbage"]
ParseOK(m) == m.kind # "garbage"

\* the packets an ICMPProber can read from its raw socket
EchoInbound ==
    {Garbage,
     [kind |-> "DestUnreach", code |-> 0, len |-> IPv6HeaderLen + QuotedTransportLen,
      hlen |-> IPv4HeaderLen,
      inner |-> [ok |-> TRUE, kind |-> "Echo", id |-> ProberID, seq |-> 1]]}
    \cup [kind : {"EchoReply", "Echo"}, id : Ids, seq : WireSeqs]
    \cup {[kind |-> "TimeExceeded", code |-> 0, len |-> f.len, hlen |-> f.hlen, inner |-> q] :
            f \in FragShapes, q \in QuotedMessages}

\* the packets a UDPProber can read from its raw ICMP socket; src and dst are the
\* first two 16-bit fields after the quoted IP header
UDPInbound ==
    {Garbage, [kind |-> "EchoReply", id |-> ProberID, seq |-> 1]}
    \cup {[kind |-> kc[1], code |-> kc[2], len |-> f.len, hlen |-> f.hlen,
           src |-> sp, dst |-> dp] :
            kc \in {<<"TimeExceeded", 0>>, <<"DestUnreach", 1>>,
                    <<"DestUnreach", PortUnreachable4>>, <<"DestUnreach", PortUnreachable6>>},
            f \in FragShapes, sp \in SrcPorts, dp \in DstPorts}

\* ipv4.ParseHeader succeeds, h.Len > 0 and len(data) >= h.Len + 8; for IPv6
\* ipv6.ParseHeader succeeds and len(data) >= ipv6HeaderLen + 8
QuotedHeaderOK(ipVersion, m) ==
    IF ipVersion = 4
    THEN /\ m.len >= IPv4HeaderLen
         /\ m.len >= m.hlen
         /\ m.hlen > 0
         /\ m.len >= m.hlen + QuotedTransportLen
    ELSE /\ m.len >= IPv6HeaderLen
         /\ m.len >= IPv6HeaderLen + QuotedTransportLen

\* ICMPProber.matchesQuoted
matchesQuoted(c, m) ==
    /\ m.kind = "TimeExceeded"
    /\ m.len # 0
    /\ QuotedHeaderOK(c.ipVersion, m)
    /\ m.inner.ok
    /\ m.inner.kind \in {"Echo", "EchoReply"}
    /\ m.inner.id = c.id
    /\ m.inner.seq = c.seq

\* ICMPProber.classifyReply
classifyReply(c, m) ==
    IF m.kind = "EchoReply" /\ m.id = c.id /\ m.seq = c.seq
    THEN ResponseTypeEchoReply
    ELSE IF m.kind = "TimeExceeded" /\ matchesQuoted(c, m)
    THEN ResponseTypeTimeExceeded
    ELSE ResponseTypeTimeout

\* UDPProber.Probe line 77: the destination port of the probe numbered seq
DestPort(seq) == BasePort + (seq % PortSpan)

\* extractQuotedTransport: the quoted transport header can be read
extractQuotedTransport(ipVersion, m) ==
    IF ipVersion = 4
    THEN QuotedHeaderOK(4, m)
    ELSE m.len >= IPv6HeaderLen + QuotedTransportLen

\* mutant: the quoted destination port is not compared
matchesQuotedUDPAnyPort(c, m, destPort) ==
    /\ m.kind \in {"TimeExceeded", "DestUnreach"}
    /\ m.len # 0
    /\ extractQuotedTransport(c.ipVersion, m)
    /\ ~(c.localPort # 0 /\ m.src # c.localPort)

\* UDPProber.matchesQuotedUDP
matchesQuotedUDP(c, m, destPort) ==
    /\ m.kind \in {"TimeExceeded", "DestUnreach"}
    /\ m.len # 0
    /\ extractQuotedTransport(c.ipVersion, m)
    /\ ~(destPort # 0 /\ m.dst # destPort)
    /\ ~(c.localPort # 0 /\ m.src # c.localPort)

\* mutant: code 3 means port unreachable for both families
isPortUnreachableV4Only(ipVersion, m) ==
    m.kind = "DestUnreach" /\ m.code = PortUnreachable4

\* isPortUnreachable; the socket of an IPv4 prober delivers ICMPv4 types, that of an
\* IPv6 prober ICMPv6 types
isPortUnreachable(ipVersion, m) ==
    /\ m.kind = "DestUnreach"
    /\ m.code = IF ipVersion = 4 THEN PortUnreachable4 ELSE PortUnreachable6

\* UDPProber.classifyUDPReply: the response type, and whether the message is accepted
classifyUDPReply(c, m, destPort) ==
    IF m.kind = "TimeExceeded" /\ matchesQuotedUDP(c, m, destPort)
    THEN [typ |-> ResponseTypeTimeExceeded, ok |-> TRUE]
    ELSE IF m.kind = "DestUnreach" /\ matchesQuotedUDP(c, m, destPort)
    THEN IF isPortUnreachable(c.ipVersion, m)
         THEN [typ |-> ResponseTypeEchoReply, ok |-> TRUE]
         ELSE [typ |-> ResponseTypeDestUnreach, ok |-> TRUE]
    ELSE [typ |-> ResponseTypeTimeout, ok |-> FALSE]

\* the read deadline of a probe sent at time 0: now.Add(p.timeout), or the caller's
\* deadline when ctx has one that comes before
EffectiveDeadline(timeout, ctxDeadline) ==
    IF ctxDeadline # 0 /\ ctxDeadline < timeout THEN ctxDeadline ELSE timeout

\* ctx.Err() != nil: cancelled, or past the caller's deadline
CtxErr == pctx \/ (call.ctxDeadline # 0 /\ clock >= call.ctxDeadline)

\* isTimeout
isTimeout(err) == err = "timeout"

\* what Probe returns
TimeoutResult == [returned |-> TRUE, type |-> ResponseTypeTimeout, err |-> ErrNone]
Response(typ) == [returned |-> TRUE, type |-> typ, err |-> ErrNone]
ErrorResult == [returned |-> TRUE, type |-> "none", err |-> ErrProbe]

\* mutant: a failed read is an error whenever it is not a timeout
ReadErrorResultNoCtx(ctxErr, err) ==
    IF isTimeout(err) THEN TimeoutResult ELSE ErrorResult

\* the handling of a failed ReadFrom (part_009 lines 116-133, udp_prober.go 120-137)
ReadErrorResult(ctxErr, err) ==
    IF ctxErr THEN TimeoutResult
    ELSE IF isTimeout(err) THEN TimeoutResult
    ELSE ErrorResult

\* a Probe call is about to start
ProbeStart(c, cancelled) ==
    /\ call = c
    /\ ppc = "start"
    /\ pres = NoRet
    /\ clock = 0
    /\ deadline = 0
    /\ pctx = cancelled
    /\ plog = [reads |-> 0, last |-> Garbage, end |-> "none", ctxErr |-> FALSE,
               collapsed |-> FALSE]
    /\ waiters = <<>>

\* setTTL, Marshal and WriteTo (dialUDP, setUDPTTL and Write) succeed; the read
\* deadline is set and the goroutine waiting on ctx.Done() is started
ProbeSend ==
    /\ ppc = "start"
    /\ deadline' = EffectiveDeadline(call.timeout, call.ctxDeadline)
    /\ ppc' = "read"
    /\ waiters' = Append(waiters, "waiting")
    /\ UNCHANGED <<call, pres, clock, pctx, plog>>
    /\ UNCHANGED <<runVars, statsVars, dl>>

\* one of the steps before the read loop fails: Probe returns the error
ProbeSendFails ==
    /\ ppc = "start"
    /\ pres' = ErrorResult
    /\ plog' = [plog EXCEPT !.end = "send"]
    /\ ppc' = "done"
    /\ UNCHANGED <<call, clock, deadline, pctx>>
    /\ UNCHANGED <<runVars, statsVars, waiters, dl>>

\* ICMPProber.Probe lines 114-155: ReadFrom delivers a packet before the deadline;
\* it is parsed and classified, a match is returned, anything else is skipped
ReadEchoFrom(inbound) ==
    /\ ppc = "read"
    /\ call.mode = "icmp"
    /\ clock < deadline
    /\ plog.reads < MaxReads
    /\ \E m \in inbound :
          LET typ == IF ParseOK(m) THEN classifyReply(call, m) ELSE ResponseTypeTimeout
              match == typ \in {ResponseTypeEchoReply, ResponseTypeTimeExceeded}
          IN  /\ plog' = [plog EXCEPT !.reads = @ + 1, !.last = m,
                                      !.end = IF match THEN "match" ELSE @]
              /\ pres' = IF match THEN Response(typ) ELSE pres
              /\ ppc' = IF match THEN "done" ELSE "read"
    /\ UNCHANGED <<call, clock, deadline, pctx>>
    /\ UNCHANGED <<runVars, statsVars, waiters, dl>>

\* the read loop of ICMPProber.Probe under any inbound traffic
ReadEcho == ReadEchoFrom(EchoInbound)

\* UDPProber.Probe lines 118-157: the same loop over classifyUDPReply
ReadDatagram ==
    /\ ppc = "read"
    /\ call.mode = "udp"
    /\ clock < deadline
    /\ plog.reads < MaxReads
    /\ \E m \in UDPInbound :
          LET cl == IF ParseOK(m) THEN classifyUDPReply(call, m, DestPort(call.seq))
                    ELSE [typ |-> ResponseTypeTimeout, ok |-> FALSE]
          IN  /\ plog' = [plog EXCEPT !.reads = @ + 1, !.last = m,
                                      !.end = IF cl.ok THEN "match" ELSE @]
              /\ pres' = IF cl.ok THEN Response(cl.typ) ELSE pres
              /\ ppc' = IF cl.ok THEN "done" ELSE "read"
    /\ UNCHANGED <<call, clock, deadline, pctx>>
    /\ UNCHANGED <<runVars, statsVars, waiters, dl>>

\* ReadFrom fails because the read deadline has passed
ReadTimeout ==
    /\ ppc = "read"
    /\ clock >= deadline
    /\ pres' = ReadErrorResult(CtxErr, "timeout")
    /\ plog' = [plog EXCEPT !.end = "timeout", !.ctxErr = CtxErr]
    /\ ppc' = "done"
    /\ UNCHANGED <<call, clock, deadline, pctx>>
    /\ UNCHANGED <<runVars, statsVars, waiters, dl>>

\* ReadFrom fails for another reason
ReadError ==
    /\ ppc = "read"
    /\ pres' = ReadErrorResult(CtxErr, "other")
    /\ plog' = [plog EXCEPT !.end = "error", !.ctxErr = CtxErr]
    /\ ppc' = "done"
    /\ UNCHANGED <<call, clock, deadline, pctx>>
    /\ UNCHANGED <<runVars, statsVars, waiters, dl>>

\* time passes while ReadFrom blocks
Tick ==
    /\ ppc = "read"
    /\ clock < deadline
    /\ clock' = clock + 1
    /\ UNCHANGED <<call, ppc, pres, deadline, pctx, plog>>
    /\ UNCHANGED <<runVars, statsVars, waiters, dl>>

\* the caller cancels ctx
CancelProbe ==
    /\ ~pctx
    /\ ppc \in {"start", "read"}
    /\ pctx' = TRUE
    /\ UNCHANGED <<call, ppc, pres, clock, deadline, plog>>
    /\ UNCHANGED <<runVars, statsVars, waiters, dl>>

\* the goroutine of lines 104-110 receives from ctx.Done(): SetReadDeadline(time.Now())
Waiter ==
    /\ ppc = "read"
    /\ CtxErr
    /\ ~plog.collapsed
    /\ deadline' = clock
    /\ plog' = [plog EXCEPT !.collapsed = TRUE]
    /\ waiters' = [waiters EXCEPT ![Len(waiters)] = "collapsed"]
    /\ UNCHANGED <<call, ppc, pres, clock, pctx>>
    /\ UNCHANGED <<runVars, statsVars, dl>>

\* one Probe call of either prober, with any inbound traffic, on a Controller that
\* stays as constructed
InitProbe ==
    /\ RunInit(FloodConfig, SilentNet)
    /\ StatsIdle
    /\ DownloadIdle
    /\ \E c \in Calls, cancelled \in BOOLEAN : ProbeStart(c, cancelled)

NextProbe ==
    \/ ProbeSend
    \/ ProbeSendFails
    \/ ReadEcho
    \/ ReadDatagram
    \/ ReadTimeout
    \/ ReadError
    \/ Tick
    \/ CancelProbe
    \/ Waiter

SpecProbe == InitProbe /\ [][NextProbe]_vars

\* icmp.Echo carries Seq in a 16-bit field: what Marshal puts on the wire for the
\* Seq that echoMessage is given, and what ParseMessage reads back
WireSeq(seq) == seq % 65536

\* ICMPProber.echoMessage as sent: the Echo Request of a call
echoMessage(c) == [kind |-> "Echo", id |-> c.id, seq |-> WireSeq(c.seq)]

\* the genuine answers to the probe of a call: the target's Echo Reply, which echoes
\* identifier and sequence number, and a router's Time Exceeded quoting the request
GenuineReplies(c) ==
    LET e == echoMessage(c)
        hl == IF c.ipVersion = 4 THEN IPv4HeaderLen ELSE IPv6HeaderLen
    IN  {[kind |-> "EchoReply", id |-> e.id, seq |-> e.seq],
         [kind |-> "TimeExceeded", code |-> 0, len |-> hl + QuotedTransportLen,
          hlen |-> IPv4HeaderLen,
          inner |-> [ok |-> TRUE, kind |-> e.kind, id |-> e.id, seq |-> e.seq]]}

\* the round in which round * maxHops + ttl first passes the 16-bit range
WrapRound(maxHops) == 65536 \div maxHops

\* sequence numbers Controller.Run generates in a run without a round limit: in the
\* first round, in the last round below the 16-bit range and in the round after it
RunSeqs ==
    {ProbeSeq(r, t, MaxHops) :
        r \in {0, WrapRound(MaxHops) - 1, WrapRound(MaxHops)}, t \in 1..MaxHops}

\* the Probe calls of an ICMPProber with these sequence numbers
SeqCalls ==
    [mode : {"icmp"}, ipVersion : {4, 6}, id : {ProberID}, seq : RunSeqs,
     localPort : {0}, timeout : 1..MaxTimeout, ctxDeadline : {0}]

\* the read loop when the only inbound packets are the genuine answers
ReadGenuine == ReadEchoFrom(GenuineReplies(call))

\* one Probe call of an ICMPProber whose probe is answered, if at all, genuinely
InitSeq ==
    /\ RunInit(FloodConfig, SilentNet)
    /\ StatsIdle
    /\ DownloadIdle
    /\ \E c \in SeqCalls : ProbeStart(c, FALSE)

NextSeq ==
    \/ ProbeSend
    \/ ReadGenuine
    \/ ReadTimeout
    \/ Tick

SpecSeq == InitSeq /\ [][NextSeq]_vars

\* the goroutine of an earlier Probe call, or of the call that has just returned,
\* has both cases of its select to choose from at most: unblock is closed (the
\* deferred close ran when its Probe returned), ctx.Done() is closed when the
\* context is cancelled
Returned(i) == i < Len(waiters) \/ ppc # "read"

\* mutant: the goroutine waits for ctx.Done() alone
LateWaiterNoUnblock(i) ==
    /\ i \in 1..Len(waiters)
    /\ waiters[i] = "waiting"
    /\ Returned(i)
    /\ pctx
    /\ waiters' = [waiters EXCEPT ![i] = "collapsed"]
    /\ deadline' = clock
    /\ UNCHANGED <<call, ppc, pres, clock, pctx, plog>>
    /\ UNCHANGED <<runVars, statsVars, dl>>

\* lines 104-110 after the Probe that started the goroutine has returned: the
\* select takes case <-unblock and the goroutine ends, or, the context being
\* cancelled as well, it may take case <-ctx.Done() and set the read deadline of
\* the socket, which by now serves a later Probe, to time.Now()
LateWaiter(i) ==
    /\ i \in 1..Len(waiters)
    /\ waiters[i] = "waiting"
    /\ Returned(i)
    /\ \/ /\ waiters' = [waiters EXCEPT ![i] = "exited"]
          /\ UNCHANGED deadline
       \/ /\ pctx
          /\ waiters' = [waiters EXCEPT ![i] = "collapsed"]
          /\ deadline' = clock
    /\ UNCHANGED <<call, ppc, pres, clock, pctx, plog>>
    /\ UNCHANGED <<runVars, statsVars, dl>>

\* the number of Probe calls followed on one prober
MaxCalls == 2

\* the Probe calls of a run: the context is the run's, without a deadline of its own
WaiterCalls ==
    {c \in Calls : c.ipVersion = 4 /\ c.seq = 1 /\ c.ctxDeadline = 0 /\ c.localPort = 0}

\* the Controller calls Probe again on the same prober, with the same context
ProbeAgain(c) ==
    /\ ppc = "done"
    /\ Len(waiters) < MaxCalls
    /\ c.mode = call.mode
    /\ call' = c
    /\ ppc' = "start"
    /\ pres' = NoRet
    /\ clock' = 0
    /\ deadline' = 0
    /\ plog' = [reads |-> 0, last |-> Garbage, end |-> "none", ctxErr |-> FALSE,
                collapsed |-> FALSE]
    /\ UNCHANGED <<pctx, waiters>>
    /\ UNCHANGED <<runVars, statsVars, dl>>

\* consecutive Probe calls on one prober and the goroutines they leave behind
InitWaiter ==
    /\ RunInit(FloodConfig, SilentNet)
    /\ StatsIdle
    /\ DownloadIdle
    /\ \E c \in WaiterCalls : ProbeStart(c, FALSE)

NextWaiter ==
    \/ ProbeSend
    \/ ProbeSendFails
    \/ ReadGenuine
    \/ ReadTimeout
    \/ Tick
    \/ CancelProbe
    \/ Waiter
    \/ \E i \in 1..MaxCalls : LateWaiter(i)
    \/ \E c \in WaiterCalls : ProbeAgain(c)

\* every goroutine that can run is scheduled in the end
SpecWaiter ==
    /\ InitWaiter
    /\ [][NextWaiter]_vars
    /\ \A i \in 1..MaxCalls : WF_vars(LateWaiter(i))

(* ------------------------------------------- internal/geoip/ip2region.go *)
\* A URL is a sequence of characters; Blank is the white space TrimSpace cuts.
Blank == " "

\* the built-in download sources, in the order of the list
ip2RegionDownloadSources == << <<"1">>, <<"2">>, <<"3">> >>

RECURSIVE TrimLeft(_)
TrimLeft(s) == IF s # <<>> /\ Head(s) = Blank THEN TrimLeft(Tail(s)) ELSE s

RECURSIVE TrimRight(_)
TrimRight(s) ==
    IF s # <<>> /\ s[Len(s)] = Blank THEN TrimRight(SubSeq(s, 1, Len(s) - 1)) ELSE s

\* strings.TrimSpace
TrimSpace(s) == TrimRight(TrimLeft(s))

\* a selection that lets the environment's URL win over the caller's
selectIP2RegionSourcesEnvFirst(customURL, env) ==
    IF TrimSpace(env) # <<>> THEN <<TrimSpace(env)>>
    ELSE IF TrimSpace(customURL) # <<>> THEN <<TrimSpace(customURL)>>
    ELSE ip2RegionDownloadSources

\* selectIP2RegionSources: the caller's URL, else the environment's, else the list
selectIP2RegionSources(customURL, env) ==
    IF TrimSpace(customURL) # <<>> THEN <<TrimSpace(customURL)>>
    ELSE IF TrimSpace(env) # <<>> THEN <<TrimSpace(env)>>
    ELSE ip2RegionDownloadSources

\* the arguments and the surroundings a call of downloadIP2RegionDB can meet
CustomURLs == {<<>>, <<Blank>>, <<"c">>, <<Blank, "c", Blank>>}
EnvURLs == {<<>>, <<Blank>>, <<"e">>}

\* no file at a path
NoFile == <<"absent">>
\* the body a source serves, and a body cut short by a failed copy
BodyOf(src) == <<"body", src>>
PartOf(src) == <<"part", src>>
\* a file left at dbPath + ".download" by an earlier run
StaleFile == <<"stale">>

\* how one call of downloadFromSource can end
DownloadOutcomes ==
    {"doError", "badStatus", "createError", "copyError", "closeError", "renameError", "done"}
\* the outcomes that come after the source answered with a 2xx status
After2xx == {"createError", "copyError", "closeError", "renameError", "done"}
\* the outcomes that come after os.Create(tmp) succeeded and that end in os.Remove(tmp)
AfterCreate == {"copyError", "closeError", "renameError"}

\* downloadIP2RegionDB is called
DownloadStart(customURL, env, stale) ==
    dl = [pc |-> "mkdir", custom |-> customURL, env |-> env, sources |-> <<>>, i |-> 1,
          tmp |-> IF stale THEN StaleFile ELSE NoFile, target |-> NoFile,
          tried |-> <<>>, fsError |-> FALSE, ret |-> "none"]

\* os.MkdirAll of the directory of dbPath (skipped for "" and "."), then the
\* selection of the sources
DownloadMkdir ==
    /\ dl.pc = "mkdir"
    /\ \E ok \in BOOLEAN :
          dl' = IF ok
                THEN [dl EXCEPT !.pc = "remove",
                                !.sources = selectIP2RegionSources(dl.custom, dl.env)]
                ELSE [dl EXCEPT !.pc = "returned", !.fsError = TRUE, !.ret = "error"]
    /\ UNCHANGED <<runVars, proberVars, statsVars, waiters>>

\* the head of the loop: os.Remove(tmp); an error other than "not exist" is returned
DownloadRemoveTmp ==
    /\ dl.pc = "remove"
    /\ dl.i <= Len(dl.sources)
    /\ \E ok \in BOOLEAN :
          /\ dl' = IF ok
                   THEN [dl EXCEPT !.pc = "fetch", !.tmp = NoFile]
                   ELSE [dl EXCEPT !.pc = "returned", !.fsError = TRUE, !.ret = "error"]
    /\ UNCHANGED <<runVars, proberVars, statsVars, waiters>>

\* downloadFromSource for the source at hand, and the test of its error
DownloadFromSource(outcome) ==
    /\ dl.pc = "fetch"
    /\ LET src == dl.sources[dl.i]
           try == [src |-> src, ok2xx |-> outcome \in After2xx, outcome |-> outcome]
       IN  IF outcome = "done"
           THEN dl' = [dl EXCEPT !.pc = "returned", !.tmp = NoFile, !.target = BodyOf(src),
                                 !.tried = Append(@, try), !.ret = "nil"]
           ELSE \E left \in (IF outcome \in AfterCreate THEN {NoFile, PartOf(src)}
                             ELSE {NoFile}) :
                   dl' = [dl EXCEPT !.pc = "remove", !.i = @ + 1, !.tmp = left,
                                    !.tried = Append(@, try)]
    /\ UNCHANGED <<runVars, proberVars, statsVars, waiters>>

\* the loop ran out of sources: the collected errors are returned
DownloadGiveUp ==
    /\ dl.pc = "remove"
    /\ dl.i > Len(dl.sources)
    /\ dl' = [dl EXCEPT !.pc = "returned", !.ret = "error"]
    /\ UNCHANGED <<runVars, proberVars, statsVars, waiters>>

InitDownload ==
    /\ RunInit(FloodConfig, SilentNet)
    /\ ProberIdle
    /\ StatsIdle
    /\ \E customURL \in CustomURLs, env \in EnvURLs, stale \in BOOLEAN :
          DownloadStart(customURL, env, stale)

NextDownload ==
    \/ DownloadMkdir
    \/ DownloadRemoveTmp
    \/ \E outcome \in DownloadOutcomes : DownloadFromSource(outcome)
    \/ DownloadGiveUp

SpecDownload == InitDownload /\ [][NextDownload]_vars

(* ------------------------------------------------------------------ claims *)
Last(q) == q[Len(q)]
CountType(q, ty) == Cardinality({i \in 1..Len(q) : q[i].Type = ty})

\* C1: in a round not cut short by a fatal error, the Probe results of the round are
\* those of TTL 1, 2, ..., k, once each and in this order, k being the first TTL
\* answered by an EchoReply, or maxHops; the next Probe is at the next TTL, and a
\* new round starts again at TTL 1.
C1_SweepOrder ==
    /\ Len(sweep) <= cfg.maxHops
    /\ \A i \in 1..Len(sweep) : sweep[i][1] = i
    /\ \A i \in 1..(Len(sweep) - 1) : sweep[i][2] # ResponseTypeEchoReply
    /\ pc = "probe" => ttl = Len(sweep) + 1
    /\ pc \in {"apply", "apply2", "emitHop"} => ttl = Len(sweep)
    /\ pc \in {"roundEnd", "wait"} =>
          /\ Len(sweep) >= 1
          /\ Last(sweep)[2] = ResponseTypeEchoReply \/ Len(sweep) = cfg.maxHops

\* a second round that stopped early, on an EchoReply at TTL 1 of 2
C1_Witness ==
    /\ pc = "roundEnd"
    /\ round = 1
    /\ cfg.maxHops = 2
    /\ sweep = <<(<<1, ResponseTypeEchoReply>>)>>

\* C2: every Hop of the registry has sent >= received and 0 <= loss <= 100.
C2_SentReceivedLoss ==
    \A t \in DOMAIN hops :
        hops[t] # NoHop =>
            /\ hops[t].Stats.Sent >= hops[t].Stats.Received
            /\ hops[t].Stats.Received >= 0
            /\ hops[t].Stats.Loss >= 0
            /\ hops[t].Stats.Loss <= 100000

\* a cancelled run that ended with a Hop at 1 received of 2 sent
C2_Witness ==
    /\ pc = "returned"
    /\ ctxDone
    /\ hops[1] # NoHop
    /\ hops[1].Stats.Sent = 2
    /\ hops[1].Stats.Received = 1
    /\ hops[1].Stats.Loss = 50000

\* C4 (as claimed): once the context was cancelled during a TTL sweep, no Done event
\* is ever published.
C4_NoDoneAfterSweepCancel ==
    cancelAt = "sweep" => CountType(published, EventTypeDone) = 0

\* C5 (as claimed): Run returns nil on normal completion and on cancellation, an error
\* only for a setup failure or a fatal Probe error.
C5_NilOnCancel ==
    pc = "returned" => retval \in {ErrNone, ErrResolve, ErrSetTarget, ErrProbe}

\* C5 (amended): Run returns nil exactly when every configured round was swept (also
\* when the context was cancelled during or after the last sweep); it returns the
\* context's error when it sees the cancellation at the start of a round or in the
\* wait between rounds; any other error is a setup failure or a fatal Probe error.
C5_RunResult ==
    pc \in {"return", "returned"} =>
        /\ retval \in {ErrNone, ErrCtx, ErrResolve, ErrSetTarget, ErrProbe}
        /\ retval = ErrNone <=> (cfg.count > 0 /\ round = cfg.count /\ ~fatal)
        /\ retval = ErrCtx <=> (ctxDone /\ ~fatal /\ targetIP # ""
                                  /\ (cfg.count = 0 \/ round < cfg.count))
        /\ retval = ErrProbe <=> fatal
        /\ retval \in {ErrResolve, ErrSetTarget} => \A t \in DOMAIN probes : probes[t] = 0

\* Run returned the context's error after a cancellation during the wait
C5_Witness ==
    /\ pc = "returned"
    /\ retval = ErrCtx
    /\ cancelAt = "wait"

\* C6: a Probe error changes no Hop, is published as exactly one Error event, is what
\* Run returns, and is followed by no further event, Probe or Hop update.
C6_FatalAborts ==
    /\ [](fatal =>
            /\ pc \in {"return", "returned"}
            /\ retval = ErrProbe
            /\ Last(published) = ErrorEvent(ErrProbe)
            /\ CountType(published, EventTypeError) = 1)
    /\ [][/\ (~fatal /\ fatal') => (hops' = hops /\ committed' = committed)
          /\ fatal => /\ hops' = hops
                      /\ published' = published
                      /\ probes' = probes
                      /\ retval' = retval]_vars

\* a Probe error in the second round, after Hops were updated
C6_Witness ==
    /\ fatal
    /\ pc = "returned"
    /\ round = 1
    /\ hops[1] # NoHop

\* C7: the channel is closed exactly once on every way out of Run, after the terminal
\* event (Done or Error) was published, and nothing is published after the close.
C7_ClosedOnceAfterTerminal ==
    /\ [](/\ closed <= 1
          /\ pc = "returned" <=> closed = 1
          /\ closed = 1 =>
                /\ published # <<>>
                /\ Last(published).Type \in {EventTypeDone, EventTypeError})
    /\ [][closed >= 1 => (published' = published /\ closed' = closed)]_vars

\* Run completed normally and closed the channel after Done
C7_Witness ==
    /\ closed = 1
    /\ retval = ErrNone
    /\ Last(published) = DoneEvent

\* C10: the registry holds a Hop for TTL t exactly when a Probe result at t was
\* applied (or is being applied under the writer lock), and never for a TTL that
\* was not probed.
C10_HopIffApplied ==
    \A t \in DOMAIN hops :
        /\ hops[t] # NoHop <=> (applied[t] >= 1 \/ (mu.writer /\ ttl = t))
        /\ committed[t] # NoHop <=> applied[t] >= 1
        /\ hops[t] # NoHop => probes[t] >= 1

\* two rounds over two TTLs that never went past TTL 1
C10_Witness ==
    /\ cfg.maxHops = 2
    /\ round = 1
    /\ pc = "roundEnd"
    /\ hops[1] # NoHop
    /\ hops[2] = NoHop

\* C3: a Snapshot holds, for every Hop, the Hop as it was after the last completely
\* applied result: it is never taken while a result is half applied, whatever the
\* number of concurrent Snapshot callers, and readers never overlap the writer.
C3_SnapshotAtomic ==
    /\ [](~(mu.writer /\ mu.readers # {}))
    /\ [][\A r \in Readers :
            (rpc[r] = "idle" /\ rpc'[r] = "reading") =>
                snap'[r] = MakeSnapshot(committed, targetIP, cfg)]_vars

\* two callers hold Snapshots of an updated Hop while the next result waits for the lock
C3_Witness ==
    /\ rpc[1] = "reading"
    /\ rpc[2] = "reading"
    /\ pc = "apply"
    /\ round = 1
    /\ Len(snap[1].Hops) = 1
    /\ snap[1].Hops[1].Stats.Received = 1
    /\ snap[2] = snap[1]

\* C8: emit never blocks Run: on a full channel the event is discarded and the
\* channel left as it is, the channel never holds more than 256 events, and a run
\* nobody consumes still completes every round.
C8_EmitNeverBlocks ==
    /\ [](/\ Len(events) <= QueueCap
          /\ pc \in {"emitHop", "roundEnd"} => ENABLED (EmitHop \/ RoundEnd)
          /\ (pc = "returned" /\ ~fatal /\ targetIP # "") =>
                /\ retval = ErrNone
                /\ CountType(published, EventTypeRoundCompleted) = cfg.count)
    /\ [][(Len(events) = QueueCap /\ published' # published) =>
            (events' = events /\ pc' # pc)]_vars

\* nobody consumed, the channel is full and the run went on to complete its last round
C8_Witness ==
    /\ delivered = <<>>
    /\ Len(events) = QueueCap
    /\ Len(published) > QueueCap + 1
    /\ pc = "returned"
    /\ round = cfg.count

\* C9: every event the consumer receives is an event that was published, and it was
\* published after the event received before it: what is received is a
\* subsequence of what was published, drops only leave gaps.
C9_DeliveredInOrder ==
    /\ [](Len(deliveredIdx) = Len(delivered) /\ Len(eventsIdx) = Len(events))
    /\ [][delivered' # delivered =>
            LET k == Len(delivered')
            IN  /\ k = Len(delivered) + 1
                /\ deliveredIdx'[k] \in 1..Len(published)
                /\ delivered'[k] = published[deliveredIdx'[k]]
                /\ k > 1 => deliveredIdx'[k] > deliveredIdx'[k - 1]]_vars

\* the consumer received an event published after a gap of dropped events
C9_Witness ==
    /\ Len(delivered) > QueueCap
    /\ Len(delivered) < Len(published)
    /\ Last(delivered) = Last(published)
    /\ delivered[QueueCap + 1] # published[QueueCap + 1]

\* the Hop a result is applied to, as it was before the call: the registered Hop, or
\* the Hop that applyResult creates
HopBefore(t) == IF committed[t] = NoHop THEN NewHop(t) ELSE committed[t]

\* C11: when applyResult finishes applying a Timeout result to the Hop of a TTL, the
\* Hop's sent count is one more than before the call, the Hop is marked lost, its
\* loss is recomputed from the new counts, and everything else (received, the
\* responder address, hostname, location, last / best / worst / average / standard
\* deviation and the sample history) is as it was before the call; the Hops of the
\* other TTLs are untouched.
C11_TimeoutFrame ==
    [][(pc = "apply2" /\ pc' = "emitHop" /\ IsLostResult(res)) =>
          LET old == HopBefore(ttl)
              new == hops'[ttl]
          IN  /\ new.Stats.Sent = old.Stats.Sent + 1
              /\ new.Lost
              /\ new.Stats.Loss = 100000 - (old.Stats.Received * 100000) \div new.Stats.Sent
              /\ [new EXCEPT !.Lost = old.Lost, !.Stats.Sent = old.Stats.Sent,
                             !.Stats.Loss = old.Stats.Loss] = old
              /\ \A t \in DOMAIN hops : t # ttl => hops'[t] = committed[t]]_vars

\* a Timeout has been applied to a Hop that had answered before and has a hostname
\* and a location
C11_Witness ==
    /\ pc = "emitHop"
    /\ res.type = ResponseTypeTimeout
    /\ hops[ttl].Lost
    /\ hops[ttl].Stats.Sent = 2
    /\ hops[ttl].Stats.Received = 1
    /\ hops[ttl].Stats.History # <<>>
    /\ hops[ttl].IP # NoIP
    /\ hops[ttl].Hostname # ""
    /\ hops[ttl].Location # ""

\* C12: when applyResult finishes applying an answered result whose address differs
\* from the address the Hop had, the Hop carries the new address, and its hostname and
\* its location are each either empty or what a lookup of the new address returns;
\* nothing looked up for the previous address is left (with the hostname lookup or
\* the resolver switched off the field is empty).
C12_AddressChangeClears ==
    [][(/\ pc = "apply2" /\ pc' = "emitHop"
        /\ ~IsLostResult(res)
        /\ HopBefore(ttl).IP # NoIP
        /\ HopBefore(ttl).IP # res.ip) =>
          /\ hops'[ttl].IP = res.ip
          /\ hops'[ttl].Hostname \in
                (IF cfg.enableDNS THEN {"", "host-" \o res.ip} ELSE {""})
          /\ hops'[ttl].Location \in
                (IF cfg.geo THEN {"", "loc-" \o res.ip} ELSE {""})]_vars

\* the Hop answered from "a", was looked up, then answered from "b" and carries the
\* hostname and the location of "b"
C12_Witness ==
    /\ pc = "emitHop"
    /\ lookups[ttl].host = <<"a", "b">>
    /\ lookups[ttl].loc = <<"a", "b">>
    /\ hops[ttl].IP = "b"
    /\ hops[ttl].Hostname = "host-b"
    /\ hops[ttl].Location = "loc-b"

\* C13 as stated: applyResult hands an address to reverseDNS or to the resolver only
\* when the address of the result differs from the address the Hop had (the first
\* address included): a result from the Hop's current address triggers no lookup,
\* whatever the earlier lookup returned.
C13_OncePerAddress ==
    [][(pc = "apply2" /\ pc' = "emitHop" /\ lookups'[ttl] # lookups[ttl]) =>
          HopBefore(ttl).IP # res.ip]_vars

\* C13: applying an answered result hands the result's address to reverseDNS exactly
\* when the hostname lookup is on and the address differs from the Hop's address or
\* the Hop has no hostname (none yet, or the earlier lookup returned nothing), and to
\* the resolver exactly when there is a resolver and the address differs or the Hop
\* has no location; a Timeout triggers no lookup. So a lookup that returned a value
\* is not repeated until the address changes, one that returned nothing is repeated.
C13_LookupWhenMissing ==
    [][(pc = "apply2" /\ pc' = "emitHop") =>
          LET old == HopBefore(ttl)
              answered == ~IsLostResult(res)
              needHost == cfg.enableDNS /\ (old.IP # res.ip \/ old.Hostname = "")
              needLoc == cfg.geo /\ (old.IP # res.ip \/ old.Location = "")
          IN  /\ lookups'[ttl].host =
                    IF answered /\ needHost
                    THEN Append(lookups[ttl].host, res.ip) ELSE lookups[ttl].host
              /\ lookups'[ttl].loc =
                    IF answered /\ needLoc
                    THEN Append(lookups[ttl].loc, res.ip) ELSE lookups[ttl].loc]_vars

\* the location of "a" was asked for twice in a row because the first lookup
\* returned nothing, while its hostname, found at once, was asked for once
C13_Witness ==
    /\ pc = "emitHop"
    /\ lookups[ttl].loc = <<"a", "a">>
    /\ lookups[ttl].host = <<"a">>
    /\ hops[ttl].Hostname = "host-a"
    /\ hops[ttl].Stats.Received = 2

\* C14: once the context has been cancelled while Run was in the inter-round wait,
\* no Probe is issued, no Hop changes, and nothing is published but one Error event
\* carrying ctx.Err(); when Run returns, that Error is the last event published, the
\* only Error, it was published before the channel was closed, and Run returns
\* ctx.Err().
C14_CancelDuringWait ==
    /\ [][cancelAt' = "wait" =>
            /\ probes' = probes
            /\ hops' = hops
            /\ \/ published' = published
               \/ /\ published' = Append(published, ErrorEvent(ErrCtx))
                  /\ closed = 0
                  /\ CountType(published, EventTypeError) = 0]_vars
    /\ []((cancelAt = "wait" /\ pc \in {"return", "returned"}) =>
            /\ Last(published) = ErrorEvent(ErrCtx)
            /\ CountType(published, EventTypeError) = 1
            /\ retval = ErrCtx)

\* the context was cancelled during the wait after a round, and Run has returned
C14_Witness ==
    /\ cancelAt = "wait"
    /\ pc = "returned"
    /\ closed = 1
    /\ Len(published) >= 3
    /\ Last(published) = ErrorEvent(ErrCtx)
    /\ published[Len(published) - 1].Type = EventTypeRoundCompleted

\* the rounds of the RoundCompleted events published so far, in publication order
RoundsCompleted ==
    LET IsRoundCompleted(e) == e.Type = EventTypeRoundCompleted
        rc == SelectSeq(published, IsRoundCompleted)
    IN  [i \in 1..Len(rc) |-> rc[i].Round]

\* Run has returned nil after publishing RoundCompleted for rounds 0 .. cfg.count - 1
\* in this order and Done as the last event
C15_Finished ==
    /\ pc = "returned"
    /\ retval = ErrNone
    /\ RoundsCompleted = [i \in 1..cfg.count |-> i - 1]
    /\ Last(published) = DoneEvent
    /\ CountType(published, EventTypeDone) = 1
    /\ probes[1] = cfg.count
    /\ \A t \in DOMAIN probes : probes[t] <= cfg.count

\* C15: with a round count N > 0, every fairly scheduled run reaches, unless the
\* target did not resolve, a Probe call failed or the context was cancelled, the
\* state where Run has returned nil after N rounds: RoundCompleted for rounds
\* 0 .. N-1 in order, then Done; and after a round Run waits the interval exactly
\* when the round is not the last one.
C15_TerminatesAfterN ==
    /\ <>(\/ cfg.count = 0
          \/ ctxDone
          \/ fatal
          \/ retval \in {ErrResolve, ErrSetTarget}
          \/ C15_Finished)
    /\ [][(cfg.count > 0 /\ pc = "roundEnd" /\ pc' # "roundEnd") =>
            ((pc' = "wait") <=> (round < cfg.count - 1))]_vars

\* a run of two rounds that was neither cancelled nor failed has returned
C15_Witness ==
    /\ C15_Finished
    /\ cfg.count = 2
    /\ ~ctxDone
    /\ ~fatal
    /\ RoundsCompleted = <<0, 1>>

\* C16: once the name lookup of the target has failed or has answered no address
\* of the requested family, Run is returning a non-nil error, Probe has not been
\* called for any TTL, no Hop exists, no target address is recorded, and the events
\* published are exactly one Error.
C16_ResolveFailureStopsRun ==
    (/\ answer # NoAnswer
     /\ \/ answer.err
        \/ \A i \in 1..Len(answer.addrs) : Family(answer.addrs[i]) # cfg.ipVersion) =>
       /\ pc \in {"return", "returned"}
       /\ retval = ErrResolve
       /\ retval # ErrNone
       /\ targetIP = ""
       /\ \A t \in DOMAIN probes : probes[t] = 0 /\ hops[t] = NoHop
       /\ Len(published) = 1
       /\ published[1].Type = EventTypeError
       /\ published[1].Err = ErrResolve

\* an IPv4 run whose target has only an IPv6 address has returned
C16_Witness ==
    /\ answer = LookupAnswered(<<"t6">>)
    /\ cfg.ipVersion = 4
    /\ pc = "returned"
    /\ closed = 1
    /\ retval = ErrResolve

\* C17 as stated: when an ICMPProber reads a packet, Probe returns (a non-timeout
\* result, nil error) exactly if the packet is an Echo Reply carrying the prober's
\* identifier and seq, or a Time Exceeded whose readable quoted datagram is an Echo
\* Request carrying them; any other packet is skipped and the read loop goes on.
C17_EchoMatchOnly ==
    [][(ppc = "read" /\ call.mode = "icmp" /\ plog'.reads = plog.reads + 1) =>
          LET m == plog'.last
              reply == m.kind = "EchoReply" /\ m.id = call.id /\ m.seq = call.seq
              quoted == /\ m.kind = "TimeExceeded"
                        /\ QuotedHeaderOK(call.ipVersion, m)
                        /\ m.inner.ok
                        /\ m.inner.kind = "Echo"
                        /\ m.inner.id = call.id
                        /\ m.inner.seq = call.seq
          IN  IF reply \/ quoted
              THEN /\ ppc' = "done"
                   /\ pres' = Response(IF reply THEN ResponseTypeEchoReply
                                       ELSE ResponseTypeTimeExceeded)
              ELSE /\ ppc' = "read"
                   /\ pres' = NoRet]_vars

\* the datagram quoted by an accepted or skipped message names the probe:
\* readable transport header, the probe's destination port, and the local port of
\* the probe's socket when that port is known
QuotesProbe(c, m) ==
    /\ m.kind \in {"TimeExceeded", "DestUnreach"}
    /\ IF c.ipVersion = 4
       THEN m.hlen >= IPv4HeaderLen /\ m.len >= m.hlen + QuotedTransportLen
       ELSE m.len >= IPv6HeaderLen + QuotedTransportLen
    /\ m.dst = BasePort + (c.seq % PortSpan)
    /\ c.localPort # 0 => m.src = c.localPort

\* C18: when a UDPProber reads a message quoting its probe, a Destination
\* Unreachable with the port-unreachable code of the family (3 for IPv4, 4 for IPv6)
\* is returned as EchoReply, which ends the Controller's sweep; one with another
\* code is returned as DestUnreach, which does not end the sweep; a Time Exceeded is
\* returned as TimeExceeded.
C18_PortUnreachableIsEchoReply ==
    [][(/\ ppc = "read" /\ call.mode = "udp" /\ plog'.reads = plog.reads + 1
        /\ QuotesProbe(call, plog'.last)) =>
          LET m == plog'.last
              portCode == IF call.ipVersion = 4 THEN 3 ELSE 4
          IN  /\ ppc' = "done"
              /\ pres'.err = ErrNone
              /\ (m.kind = "DestUnreach" /\ m.code = portCode) =>
                    /\ pres'.type = ResponseTypeEchoReply
                    /\ SweepEnds(pres')
              /\ (m.kind = "DestUnreach" /\ m.code # portCode) =>
                    /\ pres'.type = ResponseTypeDestUnreach
                    /\ ~SweepEnds(pres')
              /\ m.kind = "TimeExceeded" => pres'.type = ResponseTypeTimeExceeded]_vars

\* an IPv6 probe was answered by a Destination Unreachable with code 4
C18_Witness ==
    /\ ppc = "done"
    /\ call.mode = "udp"
    /\ call.ipVersion = 6
    /\ plog.end = "match"
    /\ plog.last.kind = "DestUnreach"
    /\ plog.last.code = 4
    /\ pres.type = ResponseTypeEchoReply

\* C19: a UDPProber accepts a message it reads exactly if the message is a Time
\* Exceeded or a Destination Unreachable whose quoted transport header is readable,
\* whose quoted destination port is 33434 + seq mod 10000, and, provided the local
\* port of the probe's socket is known, whose quoted source port is that port; any
\* other message is skipped and the read loop goes on.
C19_QuotedPortMatches ==
    [][(ppc = "read" /\ call.mode = "udp" /\ plog'.reads = plog.reads + 1) =>
          IF QuotesProbe(call, plog'.last)
          THEN ppc' = "done" /\ pres'.returned /\ pres'.type # ResponseTypeTimeout
          ELSE ppc' = "read" /\ pres' = NoRet]_vars

\* the probe numbered 10001, whose socket's local port is unknown, was answered by a
\* message quoting destination port 33435 and a source port that is not compared
C19_Witness ==
    /\ ppc = "done"
    /\ call.mode = "udp"
    /\ call.seq = PortSpan + 1
    /\ call.localPort = 0
    /\ plog.end = "match"
    /\ plog.last.dst = BasePort + 1
    /\ plog.last.src = LocalPort + 1
    /\ plog.reads = 2

C21_SeqsDistinct ==
    \A i, j \in 1..Len(seqs) : i # j => seqs[i] # seqs[j]

\* two full sweeps of two TTLs have been probed
C21_Witness ==
    /\ cfg.maxHops = 2
    /\ round = 1
    /\ Len(seqs) = 4

\* the TTLs listed by a Snapshot of registry h
SnapshotTTLs(h) ==
    LET sn == MakeSnapshot(h, targetIP, cfg)
    IN  {sn.Hops[i].TTL : i \in 1..Len(sn.Hops)}

\* C22: no step of a run removes a Hop from the registry or decreases a Hop's
\* sent or received count, and a Snapshot of the registry after the step still
\* lists every Hop that was there before it
C22_RegistryGrows ==
    [][hops' # hops =>
          /\ \A t \in HopTTLs(hops) :
                /\ hops'[t] # NoHop
                /\ hops'[t].Stats.Sent >= hops[t].Stats.Sent
                /\ hops'[t].Stats.Received >= hops[t].Stats.Received
          /\ HopTTLs(hops) \subseteq SnapshotTTLs(hops')]_vars

\* the second round's sweep stopped at TTL 1 on an Echo Reply while the Hop of
\* TTL 2 recorded in the first round is still there
C22_Witness ==
    /\ round = 1
    /\ sweep = <<(<<1, ResponseTypeEchoReply>>)>>
    /\ hops[1] # NoHop /\ hops[1].Stats.Sent = 2
    /\ cfg.maxHops = 2 /\ hops[2] # NoHop
    /\ 2 \in SnapshotTTLs(hops)
    /\ pc \in {"roundEnd", "wait", "return", "returned"}

\* the number of HopUpdated events for TTL t in q
UpdatesFor(q, t) ==
    Cardinality({i \in 1..Len(q) : q[i].Type = EventTypeHopUpdated /\ q[i].TTL = t})

\* C23: when HopUpdated{ttl, round} is published its result is already applied, so
\* the registry, and any Snapshot a caller holds once the consumer has received the
\* event, has a Hop for that TTL counting at least the results announced so far; and a
\* Probe is only issued when every earlier result is applied and its event published
C23_AppliedBeforePublished ==
    /\ \A t \in DOMAIN hops :
          /\ UpdatesFor(published, t) <= applied[t]
          /\ UpdatesFor(published, t) > 0 =>
                /\ committed[t] # NoHop
                /\ committed[t].Stats.Sent >= UpdatesFor(published, t)
    /\ \A t \in DOMAIN hops :
          (snap[Watcher] # NoSnap /\ UpdatesFor(delivered, t) > 0) =>
              \E i \in 1..Len(snap[Watcher].Hops) :
                  /\ snap[Watcher].Hops[i].TTL = t
                  /\ snap[Watcher].Hops[i].Stats.Sent >= UpdatesFor(delivered, t)
    /\ Cardinality({t \in DOMAIN hops : probes[t] # applied[t]}) <= 1
    /\ \A t \in DOMAIN hops : probes[t] - applied[t] \in {0, 1}
    /\ pc = "probe" =>
          \A t \in DOMAIN hops :
              probes[t] = applied[t] /\ applied[t] = UpdatesFor(published, t)

\* the consumer has received the HopUpdated events of TTL 2 of both rounds and a
\* caller holds a Snapshot taken since
C23_Witness ==
    /\ UpdatesFor(delivered, 2) = 2
    /\ snap[Watcher] # NoSnap
    /\ Len(snap[Watcher].Hops) = 2
    /\ snap[Watcher].Hops[2].Stats.Sent = 2

\* C24: on the route whose routers answer Time Exceeded below RouteTargetTTL and whose
\* target answers Echo Reply at RouteTargetTTL, no Hop beyond RouteTargetTTL ever exists
\* in the registry or in a Snapshot, and when the run of RouteRounds rounds has returned
\* every router Hop has sent = received = RouteRounds and loss 0, and the target's Hop
\* has received = RouteRounds and is not marked lost
C24_RouteScenario ==
    /\ \A t \in DOMAIN hops :
          t > RouteTargetTTL => (hops[t] = NoHop /\ t \notin SnapshotTTLs(hops))
    /\ (pc = "returned" /\ retval = ErrNone) =>
          /\ \A t \in 1..(RouteTargetTTL - 1) :
                /\ hops[t] # NoHop
                /\ hops[t].Stats.Sent = RouteRounds
                /\ hops[t].Stats.Received = RouteRounds
                /\ hops[t].Stats.Loss = 0
          /\ hops[RouteTargetTTL] # NoHop
          /\ hops[RouteTargetTTL].Stats.Received = RouteRounds
          /\ ~hops[RouteTargetTTL].Lost

\* the run of 3 rounds with maxHops = 5 has returned and the Hop of TTL 3 counts 3
\* answers
C24_Witness ==
    /\ pc = "returned" /\ retval = ErrNone
    /\ cfg.count = 3 /\ cfg.maxHops = 5
    /\ hops[3] # NoHop /\ hops[3].Stats.Received = 3
    /\ hops[1] # NoHop /\ hops[1].Stats.Sent = 3
    /\ SnapshotTTLs(hops) = {1, 2, 3}

\* C25: a Hop whose only probe so far timed out has sent = 1, received = 0, loss = 100
\* and is marked lost; when the next probe at its TTL is answered it has sent = 2,
\* received = 1, loss = 50 and is no longer marked lost; and after a Timeout the run goes
\* on to the next TTL or to the end of the round, without returning
C25_TimeoutThenAnswer ==
    /\ [][(/\ pc = "apply2" /\ pc' = "emitHop"
           /\ res.type = ResponseTypeTimeout
           /\ committed[ttl] = NoHop) =>
              /\ hops'[ttl].Stats.Sent = 1
              /\ hops'[ttl].Stats.Received = 0
              /\ hops'[ttl].Stats.Loss = 100000
              /\ hops'[ttl].Lost]_vars
    /\ [][(/\ pc = "apply2" /\ pc' = "emitHop"
           /\ ~IsLostResult(res)
           /\ HopBefore(ttl).Stats.Sent = 1
           /\ HopBefore(ttl).Stats.Received = 0) =>
              /\ hops'[ttl].Stats.Sent = 2
              /\ hops'[ttl].Stats.Received = 1
              /\ hops'[ttl].Stats.Loss = 50000
              /\ ~hops'[ttl].Lost]_vars
    /\ [][(pc = "emitHop" /\ pc' # pc /\ res.type = ResponseTypeTimeout) =>
              /\ pc' = IF ttl < cfg.maxHops THEN "probe" ELSE "roundEnd"
              /\ retval' = "running"
              /\ closed' = 0]_vars

\* in the second round the probe at TTL 2 has been answered after the one of the first
\* round timed out
C25_Witness ==
    /\ round = 1 /\ ttl = 2
    /\ pc = "roundEnd"
    /\ hops[2].Stats.Sent = 2
    /\ hops[2].Stats.Received = 1
    /\ hops[2].Stats.n = 1
    /\ hops[2].Stats.Loss = 50000
    /\ ~hops[2].Lost

\* the smallest and the largest element of a non-empty sequence, and the sum of all
SeqMin(q) == CHOOSE x \in {q[i] : i \in 1..Len(q)} : \A j \in 1..Len(q) : x <= q[j]
SeqMax(q) == CHOOSE x \in {q[i] : i \in 1..Len(q)} : \A j \in 1..Len(q) : x >= q[j]

RECURSIVE SeqSum(_)
SeqSum(q) == IF q = <<>> THEN 0 ELSE Head(q) + SeqSum(Tail(q))

\* C26: after any non-empty sequence of AddRTT calls with non-negative durations, Best
\* is the minimum and Worst the maximum of the samples recorded so far and Last is the
\* most recent one; after one sample all three are that sample
C26_BestWorstLast ==
    samples # <<>> =>
        /\ acc.Best = SeqMin(samples)
        /\ acc.Worst = SeqMax(samples)
        /\ acc.Last = samples[Len(samples)]
        /\ Len(samples) = 1 =>
              (acc.Best = samples[1] /\ acc.Worst = samples[1] /\ acc.Last = samples[1])

\* C27: after UpdateLoss, Loss is (Sent - Received) / Sent * 100 clamped to [0, 100]
\* when Sent > 0 (to the thousandth of a percent Loss is kept in, rounded up), and 0
\* when Sent is 0; with nothing received it is exactly 100
C27_LossFormula ==
    /\ acc.Sent = 0 => acc.Loss = 0
    /\ acc.Sent > 0 =>
          /\ acc.Loss >= 0 /\ acc.Loss <= 100000
          /\ acc.Received >= acc.Sent => acc.Loss = 0
          /\ acc.Received <= acc.Sent =>
                /\ (acc.Sent - acc.Received) * 100000 <= acc.Loss * acc.Sent
                /\ (acc.Loss - 1) * acc.Sent < (acc.Sent - acc.Received) * 100000
          /\ acc.Received = 0 => acc.Loss = 100000

\* 3 sent, 0 received: loss 100
C27_Witness ==
    /\ acc.Sent = 3
    /\ acc.Received = 0
    /\ acc.Loss = 100000

\* C28: after n AddRTT calls the history holds the most recent min(n, 10) samples,
\* oldest first, never more than 10; and what the history holds has no influence on
\* the average and the standard deviation of the next call
C28_HistoryWindow ==
    LET n == Len(samples)
        k == IF n < HistoryMax THEN n ELSE HistoryMax
    IN  /\ Len(acc.History) = k
        /\ Len(acc.History) <= HistoryMax
        /\ acc.History = SubSeq(samples, n - k + 1, n)
        /\ \A rtt \in NextRTTs(samples) :
              LET with == AddRTT(acc, rtt)
                  without == AddRTT([acc EXCEPT !.History = <<>>], rtt)
              IN  with.Avg = without.Avg /\ with.StdDev = without.StdDev

\* the 11th sample has evicted the first one
C28_Witness ==
    /\ Len(samples) = HistoryMax + 1
    /\ Len(acc.History) = HistoryMax
    /\ samples[1] # samples[2]
    /\ acc.History[1] = samples[2]
    /\ acc.History[HistoryMax] = samples[HistoryMax + 1]

RECURSIVE SeqSumSq(_)
SeqSumSq(q) == IF q = <<>> THEN 0 ELSE Head(q) * Head(q) + SeqSumSq(Tail(q))

\* n * (n - 1) times the sample variance (denominator n - 1) of the samples
ScaledVariance(q) == Len(q) * SeqSumSq(q) - SeqSum(q) * SeqSum(q)

Dist(a, b) == IF a < b THEN b - a ELSE a - b

ReadHop(sh, h) ==
    IF "HistoryMs" \in sh.Aliases /\ h[sh.TTL] # NoHop
    THEN [sh EXCEPT !.Stats.HistoryMs = ToSnapshot(h[sh.TTL]).Stats.HistoryMs]
    ELSE sh

ReadSnapshot(sn, h) ==
    IF sn = NoSnap THEN NoSnap
    ELSE [sn EXCEPT !.Hops = [i \in 1..Len(sn.Hops) |-> ReadHop(sn.Hops[i], h)]]

C31_SnapshotListsRegistry ==
    /\ snap[Watcher] # NoSnap =>
          LET hs == snap[Watcher].Hops
          IN  /\ \A i \in 1..(Len(hs) - 1) : hs[i].TTL < hs[i + 1].TTL
              /\ {hs[i].TTL : i \in 1..Len(hs)} = HopTTLs(hops)
              /\ Len(hs) = Cardinality(HopTTLs(hops))
              /\ pc = "resolve" => (snap[Watcher].TargetIP = "" /\ hs = <<>>)
    /\ (rpc[Watcher] = "idle" /\ ~mu.writer /\ pc \in {"resolve", "probe", "returned"}) =>
          ENABLED SnapshotBegin(Watcher)

\* a Snapshot taken after Run has returned lists the Hops of TTL 1 and 2
C31_Witness ==
    /\ pc = "returned"
    /\ rpc[Watcher] = "reading"
    /\ Len(snap[Watcher].Hops) = 2
    /\ snap[Watcher].Hops[1].TTL = 1
    /\ snap[Watcher].Hops[2].TTL = 2
    /\ snap[Watcher].TargetIP # ""

\* C32 as stated: the sources are tried in list order, the first one that
\* answers with a 2xx status ends the loop and its body is at the target path,
\* an error is returned only after every source failed, and a given custom URL
\* is the only source tried.
C32_StopsAtFirst2xx ==
    /\ \A k \in 1..Len(dl.tried) : dl.tried[k].src = dl.sources[k]
    /\ \A k \in 1..Len(dl.tried) :
          dl.tried[k].ok2xx => /\ k = Len(dl.tried)
                               /\ dl.pc = "returned"
                               /\ dl.target = BodyOf(dl.tried[k].src)
    /\ dl.ret = "error" => /\ Len(dl.tried) = Len(dl.sources)
                           /\ dl.tried # <<>>
                           /\ \A k \in 1..Len(dl.tried) : dl.tried[k].outcome # "done"
    /\ TrimSpace(dl.custom) # <<>> =>
          \A k \in 1..Len(dl.tried) : k = 1 /\ dl.tried[k].src = TrimSpace(dl.custom)

\* C32 amended: the sources are tried in list order and the loop stops at the
\* first source whose download completes (2xx answer, body stored and renamed),
\* whose body is then at the target path; a source that answers 2xx but whose
\* body cannot be stored counts as failed and the next one is tried; an error
\* is returned only if every source failed or a file-system step of the
\* function itself failed, and then nothing is at the target path; a custom URL
\* that is not blank is, trimmed, the only source tried.
C32_StopsAtFirstCompleted ==
    /\ \A k \in 1..Len(dl.tried) : dl.tried[k].src = dl.sources[k]
    /\ \A k \in 1..Len(dl.tried) :
          dl.tried[k].outcome = "done" <=> /\ k = Len(dl.tried)
                                           /\ dl.ret = "nil"
                                           /\ dl.target = BodyOf(dl.tried[k].src)
    /\ \A k \in 1..Len(dl.tried) :
          (dl.tried[k].outcome # "done" /\ dl.pc # "returned") => dl.i = Len(dl.tried) + 1
    /\ dl.ret = "nil" => dl.tried # <<>> /\ dl.pc = "returned"
    /\ dl.ret = "error" =>
          /\ dl.target = NoFile
          /\ \/ dl.fsError
             \/ /\ Len(dl.tried) = Len(dl.sources)
                /\ dl.tried # <<>>
                /\ \A k \in 1..Len(dl.tried) : dl.tried[k].outcome # "done"
    /\ (TrimSpace(dl.custom) # <<>> /\ dl.pc # "mkdir" /\ ~(dl.sources = <<>>)) =>
          /\ dl.sources = <<TrimSpace(dl.custom)>>
          /\ \A k \in 1..Len(dl.tried) : k = 1 /\ dl.tried[k].src = TrimSpace(dl.custom)

\* a source answered 2xx and failed all the same, and the next one delivered
C32_Witness ==
    /\ dl.pc = "returned"
    /\ dl.ret = "nil"
    /\ Len(dl.tried) = 2
    /\ dl.tried[1].ok2xx
    /\ dl.target = BodyOf(ip2RegionDownloadSources[2])

\* C33: whatever sequence number round * maxHops + ttl the Controller passes, the
\* genuine reply to the probe is accepted by the Echo-mode matching test: a Probe
\* that has read the genuine reply has returned it as a match.
C33_GenuineReplyMatches ==
    (plog.reads > 0 /\ plog.last \in GenuineReplies(call)) =>
        /\ plog.end = "match"
        /\ ppc = "done"
        /\ pres.type \in {ResponseTypeEchoReply, ResponseTypeTimeExceeded}

\* C34: once the context is cancelled Run starts no new Probe: no step taken
\* after the cancellation leads into a Probe call, so the sweep does not go on
\* to a higher TTL after the interrupted Probe has returned.
C34_NoProbeAfterCancel == [][ctxDone => ~(pc # "probe" /\ pc' = "probe")]_vars

IsTerminal(e) == e.Type \in {EventTypeDone, EventTypeError}

\* C35: a run hands at most one terminal event (Done or Error) to emit, nothing is
\* published after it, so Done and Error never both appear; and when that event
\* found room in the queue, a consumer that has read until the queue was closed
\* received it as its last event.
C35_OneTerminalEventLast ==
    /\ \A i \in 1..Len(published) : IsTerminal(published[i]) => i = Len(published)
    /\ ~(CountType(published, EventTypeDone) > 0 /\ CountType(published, EventTypeError) > 0)
    /\ pc = "returned" => published # <<>> /\ IsTerminal(Last(published))
    /\ (consumerDone /\ Len(published) \in {deliveredIdx[k] : k \in 1..Len(deliveredIdx)}) =>
          /\ Last(delivered) = Last(published)
          /\ IsTerminal(Last(delivered))
          /\ \A k \in 1..(Len(delivered) - 1) : ~IsTerminal(delivered[k])

\* the consumer read a cancelled run to its end: the Error event came last
C35_Witness ==
    /\ consumerDone
    /\ Len(delivered) > 2
    /\ Last(delivered) = ErrorEvent(ErrCtx)
    /\ Len(published) \in {deliveredIdx[k] : k \in 1..Len(deliveredIdx)}

\* the sent count of the Hop of a TTL, 0 while the registry has no such Hop
SentOf(t) == IF hops[t] = NoHop THEN 0 ELSE hops[t].Stats.Sent

\* the TTLs of the registry are 1..k, and sent counts do not grow with the TTL
PrefixAndOrder ==
    /\ \A t \in 2..cfg.maxHops : hops[t] # NoHop => hops[t - 1] # NoHop
    /\ \A t \in 2..cfg.maxHops : SentOf(t) <= SentOf(t - 1)

\* C36 as stated: in every reachable state the TTLs of the registry are a prefix
\* 1..k, sent counts are non-increasing in the TTL, and the sent count of Hop 1
\* is the number of rounds whose first Probe call has returned.
C36_SentCountsFirstProbes ==
    /\ PrefixAndOrder
    /\ SentOf(1) = probes[1]

\* C36 amended: the TTLs of the registry are a prefix 1..k, sent counts are
\* non-increasing in the TTL, and the sent count of Hop 1 is the number of
\* rounds whose first probe's result has been counted by applyResult: the
\* rounds whose first Probe call has returned, less the one whose result still
\* waits for applyResult to take the lock, and less the one whose first Probe
\* call returned a fatal error.
C36_SentCountsAppliedProbes ==
    /\ PrefixAndOrder
    /\ SentOf(1) = probes[1] - (IF ttl = 1 /\ (pc = "apply" \/ fatal) THEN 1 ELSE 0)

\* two rounds were swept to TTL 1, one of them went on to TTL 2
C36_Witness ==
    /\ hops[1] # NoHop /\ hops[1].Stats.Sent = 2
    /\ hops[cfg.maxHops] # NoHop /\ hops[cfg.maxHops].Stats.Sent = 1
    /\ cfg.maxHops > 1
    /\ probes[1] = 2

\* applyResult has reached its calls of reverseDNS and resolver.Resolve and makes
\* at least one of them for the result at hand
LookupInProgress ==
    /\ pc = "apply2"
    /\ \/ LooksUpHost(hops[ttl], res, cfg.enableDNS)
       \/ LooksUpLoc(hops[ttl], res, cfg.geo)

\* C37: while a reverse-hostname lookup or a geo-location Resolve is in progress
\* the Controller does not hold the writer lock of the registry, so a Snapshot
\* call can take its read lock.
C37_NoLockDuringLookup ==
    LookupInProgress => /\ ~mu.writer
                        /\ CanRLock(mu)

\* C38: the goroutine a Probe call starts ends once that Probe has returned; a
\* goroutine sets the read deadline to the present only when the context is
\* cancelled; and while the context is not cancelled the read deadline of a
\* Probe in its read loop is not changed by anyone, whatever the interleaving.
C38_WaiterEndsCollapsesOnCancel ==
    /\ [][\A i \in 1..Len(waiters) :
            (waiters[i] = "waiting" /\ waiters'[i] = "collapsed") => pctx]_vars
    /\ [][(ppc = "read" /\ ppc' = "read" /\ deadline' # deadline) => pctx]_vars
    /\ \A i \in 1..MaxCalls :
          (i <= Len(waiters) /\ Returned(i)) ~> (i <= Len(waiters) /\ waiters[i] # "waiting")

\* a second Probe is in its read loop, the goroutine of the first has ended on
\* the close of unblock, and the context is not cancelled
C38_Witness ==
    /\ Len(waiters) = 2
    /\ waiters[1] = "exited"
    /\ waiters[2] = "waiting"
    /\ ppc = "read"
    /\ clock > 0
    /\ ~pctx

\* C39: the lost flag of a registered Hop follows the most recent result applied
\* to it: the step that finishes applying a result sets the flag to true for a
\* nil result, a Timeout or a result without responder address and to false for
\* a response with an address, and no other step changes the flag of any Hop.
C39_LostFollowsLatestResult ==
    [][\A t \in 1..cfg.maxHops :
          IF pc = "apply2" /\ pc' = "emitHop" /\ t = ttl
          THEN /\ committed'[t] # NoHop
               /\ committed'[t].Lost
                     = (res = NoRes \/ res.type = ResponseTypeTimeout \/ res.ip = NoIP)
          ELSE \/ committed'[t] = NoHop
               \/ /\ committed[t] # NoHop
                  /\ committed'[t].Lost = committed[t].Lost]_vars

\* a Hop that answered in an earlier round is lost after the Timeout of this one
C39_Witness ==
    /\ committed[1] # NoHop
    /\ committed[1].Lost
    /\ committed[1].Stats.Received > 0
    /\ pc = "emitHop"
    /\ ttl = 1

TypeOK == pc \in {"resolve", "loop", "probe", "apply", "apply2", "emitHop", "roundEnd",
                  "wait", "return", "returned"}

====
